---- MODULE Spec2Model ----
(***************************************************************************)
(* Model of the CLMM rebalancing bot: the tick / sqrt-price conversion,    *)
(* the rebalance decision of PositionMonitor.checkRebalanceNeeded and the  *)
(* new-range computation of RebalanceService.rebalance, and the check      *)
(* cycle of RebalancingBot with the transactions it builds and sends.      *)
(*                                                                         *)
(* Specifications.  Each component has its own variables and its own       *)
(* specification, which leaves the other components' variables as they     *)
(* start:                                                                  *)
(*   - SpecTickMath: calls of tickIndexToSqrtPriceX64 on successive       *)
(*     ticks, each value converted back by sqrtPriceX64ToTickIndex;        *)
(*   - SpecDecision: checkRebalanceNeeded on a position while the pool's   *)
(*     tick moves;                                                         *)
(*   - SpecRange: the new range of successive rebalances;                  *)
(*   - SpecLiquidity: the liquidity / amount formulas on a range, the      *)
(*     position the amounts open, and the amounts expected and the minimum *)
(*     amounts demanded when a rebalance withdraws it;                     *)
(*   - SpecBot: a check cycle of the bot with either RebalanceService,     *)
(*     the step-by-step one or the atomic one, and every outcome of the    *)
(*     requests to the node; SpecBotFair adds that the retry loop goes on  *)
(*     and SpecBotLive that every awaited step of rebalance() resolves;    *)
(*   - SpecLifecycle: start(), stop(), the interval timer and the awaits   *)
(*     of checkAndRebalance of RebalancingBot, in every interleaving;      *)
(*   - SpecPoolHelper: closestActiveRange and isOutOfRange of              *)
(*     utils/poolHelper;                                                   *)
(*   - SpecEncoding: the ticks of a range as addLiquidity passes them to   *)
(*     the open_position call;                                             *)
(*   - SpecRewards: collectAllRewards over the reward slots of a pool.     *)
(* The functions of utils/tickMath that the services import                *)
(* (isTickInRange, calculatePriceDeviation, calculateTickRange, and the    *)
(* liquidity / amount formulas) are written from their specification,      *)
(* sections 4.2 to 4.4.                                                    *)
(*                                                                         *)
(* Numbers.  TLC integers are 32 bits wide, while the program computes     *)
(* with bn.js integers (sqrtPriceX64 is about 2^64 and up to 2^96) and     *)
(* with decimal.js decimals of 20 significant digits.  Both are modelled   *)
(* by what they do:                                                        *)
(*   - a BN is a sequence of limbs in base 10^4, least significant first,  *)
(*     without leading zero limbs (zero is the empty sequence);            *)
(*   - a Decimal is a record [s, c, e] of value s * c * 10^e, s in         *)
(*     {-1, 1}, c a BN of at most DecPrecision digits, rounded half up     *)
(*     after every operation, as decimal.js does with its defaults.        *)
(*                                                                         *)
(* Evaluation.  TLC evaluates on the Java stack, which is small: loops are  *)
(* written without recursion wherever the limbs can be computed            *)
(* independently (carries are looked ahead), and the few loops that are    *)
(* inherently sequential bind their state by applying a function, which    *)
(* computes the argument before the next step starts.                      *)
(***************************************************************************)
EXTENDS Integers, Sequences, FiniteSets, TLC

Max(a, b) == IF a >= b THEN a ELSE b

Min(a, b) == IF a <= b THEN a ELSE b

Abs(x) == IF x < 0 THEN -x ELSE x

(***************************************************************************)
(* bn.js: arbitrary-precision naturals                                     *)
(***************************************************************************)
Base == 10^4

LimbDigits == 4

\* the limb sequences
BN == Seq(0..(Base - 1))

Limb(a, i) == IF 1 <= i /\ i <= Len(a) THEN a[i] ELSE 0

\* The sequence f with every element computed (once).
Limbs(f) == f \o <<>>

\* a without its leading zero limbs
Trim(a) ==
    SubSeq(a, 1, CHOOSE n \in 0..Len(a) :
                     /\ n = 0 \/ a[n] # 0
                     /\ \A j \in (n + 1)..Len(a) : a[j] = 0)

\* new BN(n) for a natural n
BigOf(n) == Trim(<<n % Base, (n \div Base) % Base, n \div (Base * Base)>>)

\* The carry into limb i of a sum whose limbs before carrying are s (each at
\* most 2 * Base - 2): the nearest limb below i that is not Base - 1
\* overflows.
CarryIn(s, i) ==
    \E j \in 1..(i - 1) :
        s[j] >= Base /\ \A k \in (j + 1)..(i - 1) : s[k] = Base - 1

\* a.add(b)
BigAdd(a, b) ==
    LET s == Limbs([i \in 1..Max(Len(a), Len(b)) |-> Limb(a, i) + Limb(b, i)])
    IN  Trim(Limbs([i \in 1..(Len(s) + 1) |->
                       (Limb(s, i) + (IF CarryIn(s, i) THEN 1 ELSE 0)) % Base]))

\* The borrow from limb i of a difference whose limbs before borrowing are
\* d: the nearest nonzero limb below i is negative.
BorrowIn(d, i) ==
    \E j \in 1..(i - 1) :
        d[j] < 0 /\ \A k \in (j + 1)..(i - 1) : d[k] = 0

\* a.sub(b) for a >= b
BigSub(a, b) ==
    LET d == Limbs([i \in 1..Len(a) |-> a[i] - Limb(b, i)])
    IN  Trim(Limbs([i \in 1..Len(d) |->
                       (d[i] - (IF BorrowIn(d, i) THEN 1 ELSE 0)) % Base]))

\* a.cmp(b): -1, 0 or 1, decided at the most significant limb that differs
BigCmp(a, b) ==
    IF Len(a) < Len(b) THEN -1
    ELSE IF Len(a) > Len(b) THEN 1
    ELSE IF a = b THEN 0
    ELSE LET i == CHOOSE i \in 1..Len(a) :
                      a[i] # b[i] /\ \A j \in (i + 1)..Len(a) : a[j] = b[j]
         IN  IF a[i] < b[i] THEN -1 ELSE 1

\* a.lt(b)
BigLt(a, b) == BigCmp(a, b) = -1

\* a.lte(b)
BigLe(a, b) == BigCmp(a, b) <= 0

\* a.muln(k) for 0 <= k <= Base: the low and the high halves of the limb
\* products, added
BigMulSmall(a, k) ==
    IF k = 0 THEN <<>>
    ELSE BigAdd(Limbs([i \in 1..Len(a) |-> (a[i] * k) % Base]),
                <<0>> \o Limbs([i \in 1..Len(a) |-> (a[i] * k) \div Base]))

\* a * Base^n
BigShift(a, n) == IF a = <<>> \/ n <= 0 THEN a ELSE [i \in 1..n |-> 0] \o a

\* The sum of a[i] * b[k + 1 - i] for i in lo..hi: column k of the product.
\* With at most 21 terms the sum stays below 2^31.
RECURSIVE ColSum(_, _, _, _, _)
ColSum(a, b, k, lo, hi) ==
    IF lo > hi THEN 0
    ELSE IF lo = hi THEN a[lo] * b[k + 1 - lo]
    ELSE ColSum(a, b, k, lo, (lo + hi) \div 2)
             + ColSum(a, b, k, (lo + hi) \div 2 + 1, hi)

\* a.mul(b), for operands of at most 21 limbs: the three base-Base digits of
\* the column sums, added
BigMul(a, b) ==
    IF a = <<>> \/ b = <<>> THEN <<>>
    ELSE LET n == Len(a) + Len(b) - 1
             col == Limbs([k \in 1..n |->
                        ColSum(a, b, k, Max(1, k + 1 - Len(b)), Min(k, Len(a)))])
         IN  [s \in BN |->
                  BigAdd(s, <<0, 0>> \o Limbs([k \in 1..n |-> col[k] \div (Base * Base)]))]
                     [BigAdd(Limbs([k \in 1..n |-> col[k] % Base]),
                             <<0>> \o Limbs([k \in 1..n |-> (col[k] \div Base) % Base]))]

\* The q in 0..Base-1 with q * b <= r < (q + 1) * b, for r < Base * b and b
\* with a leading limb of at least Base / 2: the quotient of the leading
\* limbs is at most 2 above it.
QuotDigit(r, b) ==
    LET n == Len(b)
        qhat == Min(Base - 1, (Limb(r, n + 1) * Base + Limb(r, n)) \div b[n])
    IN  CHOOSE q \in Max(0, qhat - 2)..qhat :
            /\ BigLe(BigMulSmall(b, q), r)
            /\ ~BigLe(BigMulSmall(b, q + 1), r)

\* The end of a step of the long division by b: the limb d joins the
\* quotient q and leaves the remainder r1 - d * b.
DivDigit(b, q, r1, d) ==
    << <<d>> \o q, IF d = 0 THEN r1 ELSE BigSub(r1, BigMulSmall(b, d)) >>

\* One step of the long division of a by b at limb i of a: s = <<q, r>>, the
\* quotient's limbs so far and the running remainder (r < b); r1 is r
\* followed by the limb.
DivStep(b, q, r1) ==
    DivDigit(b, q, r1, IF BigLt(r1, b) THEN 0 ELSE QuotDigit(r1, b))

\* Long division from the most significant limb.
RECURSIVE DivRec(_, _, _, _)
DivRec(a, b, i, s) ==
    IF i = 0 THEN Trim(s[1])
    ELSE [t \in Seq(BN) |-> DivRec(a, b, i - 1, t)]
             [DivStep(b, s[1], Trim(<<a[i]>> \o s[2]))]

\* The division of an by bn, bn with a leading limb of at least Base / 2:
\* the leading Len(bn) - 1 limbs of an are below bn and make the first
\* remainder.
DivScaled(an, bn) ==
    IF Len(an) < Len(bn) THEN <<>>
    ELSE DivRec(an, bn, Len(an) - Len(bn) + 1,
                << <<>>, Trim(SubSeq(an, Len(an) - Len(bn) + 2, Len(an))) >>)

\* a.div(b): floor(a / b) for b > 0; both are scaled by f to bring the
\* leading limb of b to Base / 2 at least.
DivBy(a, b, f) == DivScaled(BigMulSmall(a, f), BigMulSmall(b, f))

BigDiv(a, b) == DivBy(a, b, Base \div (b[Len(b)] + 1))

SmallDigits(n) ==
    IF n < 10 THEN 1 ELSE IF n < 100 THEN 2 ELSE IF n < 1000 THEN 3 ELSE 4

\* number of decimal digits (0 for zero)
BigDigits(a) ==
    IF a = <<>> THEN 0 ELSE LimbDigits * (Len(a) - 1) + SmallDigits(a[Len(a)])

\* a * 10^k
BigMulPow10(a, k) == BigShift(BigMulSmall(a, 10 ^ (k % LimbDigits)), k \div LimbDigits)

\* floor(a / 10^k): limb i of the quotient takes the high digits of a limb
\* and the low digits of the next
BigDropDigits(a, k) ==
    IF k <= 0 THEN a
    ELSE IF k \div LimbDigits >= Len(a) THEN <<>>
    ELSE LET cut == SubSeq(a, k \div LimbDigits + 1, Len(a))
             p == 10 ^ (k % LimbDigits)
         IN  Trim(Limbs([i \in 1..Len(cut) |->
                      cut[i] \div p + (Limb(cut, i + 1) % p) * (Base \div p)]))

\* round(a / 10^k), halves rounded up
BigRoundDigits(a, k) ==
    IF k <= 0 THEN a
    ELSE BigDropDigits(BigAdd(BigDropDigits(a, k - 1), <<5>>), 1)

\* floor(sqrt(x)) for 0 <= x < Base^2, two decimal digits at a time
IntSqrt(x) ==
    LET h == CHOOSE h \in 0..99 :
                 (100 * h) * (100 * h) <= x /\ (100 * h + 100) * (100 * h + 100) > x
    IN  CHOOSE d \in (100 * h)..(100 * h + 99) : d * d <= x /\ (d + 1) * (d + 1) > x

\* r2 + d for a BN r2 whose lowest limb is 0 and 0 <= d < Base
SetLowLimb(r2, d) ==
    IF r2 = <<>> THEN (IF d = 0 THEN <<>> ELSE <<d>>) ELSE <<d>> \o Tail(r2)

\* The largest d in 0..Base-1 with (r2 + d) * d <= m, for a root so far
\* whose leading limb is at least 1000: it is at most 5 below qhat, the
\* quotient m / r2 (or Base - 1 if that is smaller).
SqrtSearch(m, r2, qhat) ==
    CHOOSE d \in Max(0, qhat - 5)..qhat :
        /\ BigLe(BigMulSmall(SetLowLimb(r2, d), d), m)
        /\ \/ d = Base - 1
           \/ ~BigLe(BigMulSmall(SetLowLimb(r2, d + 1), d + 1), m)

SqrtEstimate(q) == IF Len(q) > 1 THEN Base - 1 ELSE Limb(q, 1)

\* The next limb of the root; without a root so far (r2 = 0) it is the
\* root of m < Base^2.
SqrtDigit(m, r2) ==
    IF r2 = <<>> THEN IntSqrt(Limb(m, 1) + Base * Limb(m, 2))
    ELSE SqrtSearch(m, r2, SqrtEstimate(BigDiv(m, r2)))

\* The end of a step of the square root: the limb d joins the root r and
\* leaves m1 - (r2 + d) * d.
SqrtNext(r, m1, r2, d) ==
    << Trim(<<d>> \o r), BigSub(m1, BigMulSmall(SetLowLimb(r2, d), d)) >>

\* One step of the square root by the long-hand method: r is the root of
\* the limbs consumed, m1 is (those limbs) - r^2 followed by the next two
\* limbs, r2 = 2 * r * Base, and the next limb d of the root is the largest
\* with (r2 + d) * d not above m1.
SqrtStep(r, m1, r2) == SqrtNext(r, m1, r2, SqrtDigit(m1, r2))

\* The pairs of limbs of a from the top; s = <<r, m>>.
RECURSIVE SqrtRec(_, _, _)
SqrtRec(a, n, s) ==
    IF n = 0 THEN s[1]
    ELSE [t \in Seq(BN) |-> SqrtRec(a, n - 1, t)]
             [SqrtStep(s[1], Trim(<<Limb(a, 2 * n - 1), Limb(a, 2 * n)>> \o s[2]),
                       BigShift(BigMulSmall(s[1], 2), 1))]

\* The root of an, scaled back by 10^j.
SqrtScaled(an, j) ==
    BigDropDigits(SqrtRec(an, (Len(an) + 1) \div 2, << <<>>, <<>> >>), j)

\* floor(sqrt(a)): a is scaled by the even power 10^(2j) that gives its
\* leading pair of limbs 7 or 8 digits.
SqrtBy(a, j) == SqrtScaled(BigMulPow10(a, 2 * j), j)

BigSqrt(a) ==
    IF a = <<>> THEN <<>> ELSE SqrtBy(a, ((8 - (BigDigits(a) % 8)) % 8) \div 2)

(***************************************************************************)
(* decimal.js: decimals of DecPrecision significant digits, ROUND_HALF_UP  *)
(***************************************************************************)
\* Decimal.precision (the library default; the program never sets it)
DecPrecision == 20

\* intPow keeps ceil(precision / 7 + 4) = 7 words of 7 digits while it
\* multiplies; the model keeps the same number of digits in 4-digit limbs.
DecWorkLimbs == 12

Dec(s, c, e) == [s |-> s, c |-> c, e |-> e]

\* the Decimal values
Decimal == [s : {-1, 1}, c : BN, e : Int]

DecZero == [s |-> 1, c |-> <<>>, e |-> 0]

\* The canonical form: no trailing zero digits in the coefficient.
StripZeros(s, c, e) ==
    IF c = <<>> THEN DecZero
    ELSE LET zl == CHOOSE z \in 0..(Len(c) - 1) :
                       c[z + 1] # 0 /\ \A j \in 1..z : c[j] = 0
             low == c[zl + 1]
             zd == IF low % 1000 = 0 THEN 3
                   ELSE IF low % 100 = 0 THEN 2
                   ELSE IF low % 10 = 0 THEN 1 ELSE 0
         IN  Dec(s, BigDropDigits(SubSeq(c, zl + 1, Len(c)), zd),
                 e + LimbDigits * zl + zd)

\* finalise(x, precision, ROUND_HALF_UP): round the coefficient to
\* DecPrecision significant digits.
DecRound(s, c, e) ==
    LET k == BigDigits(c) - DecPrecision
    IN  IF k <= 0 THEN StripZeros(s, c, e)
        ELSE StripZeros(s, BigRoundDigits(c, k), e + k)

\* new Decimal(n) for an integer n
DecOfInt(n) == StripZeros(IF n < 0 THEN -1 ELSE 1, BigOf(Abs(n)), 0)

\* new Decimal(n * 10^e) for an integer n: the literal's decimal expansion
DecLit(n, e) == StripZeros(IF n < 0 THEN -1 ELSE 1, BigOf(Abs(n)), e)

DecIsZero(a) == a.c = <<>>

\* a.neg()
DecNeg(a) == IF DecIsZero(a) THEN a ELSE [a EXCEPT !.s = -a.s]

\* a.abs(), Math.abs(a)
DecAbs(a) == [a EXCEPT !.s = 1]

\* The coefficient of a at exponent e <= a.e
DecCoeffAt(a, e) == BigMulPow10(a.c, a.e - e)

\* a.cmp(b): -1, 0 or 1
DecCmp(a, b) ==
    IF DecIsZero(a) /\ DecIsZero(b) THEN 0
    ELSE IF DecIsZero(a) THEN -b.s
    ELSE IF DecIsZero(b) THEN a.s
    ELSE IF a.s # b.s THEN a.s
    ELSE LET ma == BigDigits(a.c) + a.e
             mb == BigDigits(b.c) + b.e
         IN  IF ma # mb THEN (IF ma < mb THEN -a.s ELSE a.s)
             ELSE a.s * BigCmp(DecCoeffAt(a, Min(a.e, b.e)),
                               DecCoeffAt(b, Min(a.e, b.e)))

\* a.lt(b), a < b
DecLt(a, b) == DecCmp(a, b) = -1

\* a.eq(b)
DecEq(a, b) == DecCmp(a, b) = 0

\* a.times(b)
DecMul(a, b) == DecRound(a.s * b.s, BigMul(a.c, b.c), a.e + b.e)

\* The sum of a and b from their coefficients ca and cb at exponent e.
DecAddAt(a, b, e, ca, cb) ==
    IF a.s = b.s THEN DecRound(a.s, BigAdd(ca, cb), e)
    ELSE IF BigLe(cb, ca) THEN DecRound(a.s, BigSub(ca, cb), e)
    ELSE DecRound(b.s, BigSub(cb, ca), e)

\* a.plus(b)
DecAdd(a, b) ==
    IF DecIsZero(a) THEN DecRound(b.s, b.c, b.e)
    ELSE IF DecIsZero(b) THEN DecRound(a.s, a.c, a.e)
    ELSE DecAddAt(a, b, Min(a.e, b.e),
                  DecCoeffAt(a, Min(a.e, b.e)), DecCoeffAt(b, Min(a.e, b.e)))

\* a.minus(b)
DecSub(a, b) == DecAdd(a, DecNeg(b))

\* a.div(b) for b # 0: the quotient is computed to one digit more than
\* DecPrecision and rounded.
DecDiv(a, b) ==
    IF DecIsZero(a) THEN DecZero
    ELSE LET k == Max(0, DecPrecision + 1 + BigDigits(b.c) - BigDigits(a.c))
         IN  DecRound(a.s * b.s, BigDiv(BigMulPow10(a.c, k), b.c), a.e - b.e - k)

\* a.sqrt() for a >= 0: the integer square root of the coefficient scaled to
\* at least 2 * DecPrecision + 2 digits at an even exponent, rounded.
DecSqrt(a) ==
    IF DecIsZero(a) THEN DecZero
    ELSE LET j0 == Max(0, 2 * DecPrecision + 2 - BigDigits(a.c))
             j == IF (a.e - j0) % 2 = 0 THEN j0 ELSE j0 + 1
         IN  DecRound(1, BigSqrt(BigMulPow10(a.c, j)), (a.e - j) \div 2)

\* truncate(r.d, k): keep the DecWorkLimbs leading limbs, no rounding
DecTruncate(a) ==
    IF Len(a.c) <= DecWorkLimbs THEN a
    ELSE Dec(a.s, SubSeq(a.c, Len(a.c) - DecWorkLimbs + 1, Len(a.c)),
             a.e + LimbDigits * (Len(a.c) - DecWorkLimbs))

\* the exact product inside intPow (external = false: no rounding)
DecMulExact(a, b) == Dec(a.s * b.s, BigMul(a.c, b.c), a.e + b.e)

\* One turn of intPow's loop for the lowest bit of n: r = r.times(x) and
\* truncate(r.d, k) when the bit is set
PowBit(r, x, bit) == IF bit = 1 THEN DecTruncate(DecMulExact(r, x)) ELSE r

\* x = x.times(x) and truncate(x.d, k)
PowSquare(x) == DecTruncate(DecMulExact(x, x))

\* intPow(Ctor, x, n, pr): binary exponentiation, right to left.  Four turns
\* of the loop are taken at a time, for the four lowest bits of n; the
\* tuple computes them in the loop's order.
RECURSIVE IntPow(_, _, _)
IntPow(r, x, n) ==
    LET r1 == PowBit(r, x, n % 2)
        x1 == PowSquare(x)
        r2 == PowBit(r1, x1, (n \div 2) % 2)
        x2 == PowSquare(x1)
        r3 == PowBit(r2, x2, (n \div 4) % 2)
        x3 == PowSquare(x2)
        r4 == PowBit(r3, x3, (n \div 8) % 2)
        x4 == PowSquare(x3)
    IN  [s \in Seq(Decimal) |->
             IF n < 16 THEN s[7] ELSE IntPow(s[7], s[8], n \div 16)]
                 [<<r1, x1, r2, x2, r3, x3, r4, x4>>]

\* x.pow(y) for an integer y
DecPow(x, y) ==
    IF y = 0 THEN DecOfInt(1)
    ELSE [r \in Decimal |->
              IF y < 0 THEN DecDiv(DecOfInt(1), r) ELSE DecRound(r.s, r.c, r.e)]
                 [IntPow(DecOfInt(1), x, Abs(y))]

\* new BN(x.toFixed(0)) for x >= 0: rounded half up to an integer
DecToFixed0(a) ==
    IF a.e >= 0 THEN BigMulPow10(a.c, a.e) ELSE BigRoundDigits(a.c, -a.e)

(***************************************************************************)
(* TickMath: tickIndexToSqrtPriceX64                                       *)
(***************************************************************************)
MIN_TICK == -443636

MAX_TICK == 443636

\* The outcome of a call: it threw, or it returned value.  "none" is the
\* outcome of no call yet.
NoResult == [status |-> "none", value |-> <<>>]

\* throw new Error(`Tick ${tick} is out of bounds [...]`)
OutOfBounds == [status |-> "threw", value |-> <<>>]

Returned(v) == [status |-> "ok", value |-> v]

\* Q64 = new BN(2).pow(new BN(64)) = 18446744073709551616
Q64 == <<1616, 955, 737, 6744, 1844>>

\* As SqrtPriceToX64, but scaling by the number 2 ** 64, which decimal.js
\* reads from its shortest decimal form, 18446744073709552000.
SqrtPriceToX64Number(sqrtPrice) ==
    DecToFixed0(DecMul(sqrtPrice, Dec(1, <<9552, 7370, 7440, 8446, 1>>, 3)))

\* sqrtPrice.mul(new Decimal(2).pow(64)), and new BN(sqrtPriceX64.toFixed(0))
SqrtPriceToX64(sqrtPrice) ==
    DecToFixed0(DecMul(sqrtPrice, DecPow(DecOfInt(2), 64)))

\* As TickToX64, but raising to the power Math.abs(tick).
TickToX64Abs(tick) ==
    [price \in Decimal |-> SqrtPriceToX64(DecSqrt(price))]
        [DecPow(DecLit(10001, -4), Abs(tick))]

\* new Decimal(1.0001).pow(tick).sqrt(), scaled by 2^64
TickToX64(tick) ==
    [price \in Decimal |-> SqrtPriceToX64(DecSqrt(price))]
        [DecPow(DecLit(10001, -4), tick)]

\* As tickIndexToSqrtPriceX64, but clamping the tick to the bounds instead of
\* throwing.
tickIndexToSqrtPriceX64Clamped(tick) ==
    Returned(TickToX64(Max(MIN_TICK, Min(MAX_TICK, tick))))

tickIndexToSqrtPriceX64(tick) ==
    IF tick < MIN_TICK \/ tick > MAX_TICK THEN OutOfBounds
    ELSE Returned(TickToX64(tick))

(***************************************************************************)
(* PositionMonitor.checkRebalanceNeeded.  Numbers (the deviation, the       *)
(* threshold) are decimals.  isTickInRange and calculatePriceDeviation are *)
(* imported from utils/tickMath.                                           *)
(***************************************************************************)
isTickInRange(currentTick, tickLower, tickUpper) ==
    tickLower <= currentTick /\ currentTick < tickUpper

\* price(tick) = 1.0001^tick
tickToPrice(tick) == DecPow(DecLit(10001, -4), tick)

\* (priceCurrent - priceBoundary) / priceBoundary * 100
DeviationPercent(priceCurrent, priceBoundary) ==
    DecMul(DecDiv(DecSub(priceCurrent, priceBoundary), priceBoundary),
           DecOfInt(100))

\* The deviation of the price at currentTick from the price at boundary
DeviationFrom(currentTick, boundary) ==
    [p \in Seq(Decimal) |-> DeviationPercent(p[1], p[2])]
        [<<tickToPrice(currentTick), tickToPrice(boundary)>>]

\* The signed distance in percent of the price from the boundary it has
\* left: tickLower below the range, tickUpper at or above it.
calculatePriceDeviation(currentTick, tickLower, tickUpper) ==
    IF isTickInRange(currentTick, tickLower, tickUpper) THEN DecZero
    ELSE DeviationFrom(currentTick,
                       IF currentTick < tickLower THEN tickLower ELSE tickUpper)

\* As ToFixed2, but without the sign.
ToFixed2Unsigned(a) ==
    [negative |-> FALSE,
     hundredths |-> IF a.e >= -2 THEN BigMulPow10(a.c, a.e + 2)
                    ELSE BigRoundDigits(a.c, -a.e - 2)]

\* deviation.toFixed(2): the sign and the hundredths, rounded half up
ToFixed2(a) ==
    [negative |-> a.s = -1 /\ ~DecIsZero(a),
     hundredths |-> IF a.e >= -2 THEN BigMulPow10(a.c, a.e + 2)
                    ELSE BigRoundDigits(a.c, -a.e - 2)]

\* As Decision, but with the bounds of the position exchanged.
DecisionBoundsExchanged(shouldRebalance, reason, pool, position, priceDeviation) ==
    [status |-> "returned",
     shouldRebalance |-> shouldRebalance,
     reason |-> reason,
     currentTick |-> pool.currentTick,
     tickLower |-> position.tickUpper,
     tickUpper |-> position.tickLower,
     priceDeviation |-> priceDeviation]

\* The RebalanceDecision returned
Decision(shouldRebalance, reason, pool, position, priceDeviation) ==
    [status |-> "returned",
     shouldRebalance |-> shouldRebalance,
     reason |-> reason,
     currentTick |-> pool.currentTick,
     tickLower |-> position.tickLower,
     tickUpper |-> position.tickUpper,
     priceDeviation |-> priceDeviation]

\* No decision yet, and the decision of a check whose getPool or getPosition
\* threw: the error is logged and thrown again.
NoDecision == [status |-> "none"]

CheckFailed == [status |-> "threw"]

\* As InRangeDecision, but putting the deviation 0 to the threshold test.
InRangeDecisionByThreshold(pool, position, config) ==
    Decision(~DecLt(DecZero, config.rebalanceThresholdPercent),
             <<"Position is in range">>, pool, position, DecZero)

\* if (inRange) return {shouldRebalance: false, ..., priceDeviation: 0}
InRangeDecision(pool, position, config) ==
    Decision(FALSE, <<"Position is in range">>, pool, position, DecZero)

\* As OutOfRangeDecision, but with Math.abs(deviation) <= threshold for
\* "below threshold".
OutOfRangeDecisionLe(pool, position, config, deviation) ==
    IF ~DecLt(config.rebalanceThresholdPercent, DecAbs(deviation))
    THEN Decision(FALSE, <<"Deviation ", ToFixed2(deviation),
                           "% below threshold">>, pool, position, deviation)
    ELSE Decision(TRUE, <<"Price moved ", ToFixed2(deviation),
                          "% outside range">>, pool, position, deviation)

\* As OutOfRangeDecision, but reporting Math.abs(deviation).
OutOfRangeDecisionAbs(pool, position, config, deviation) ==
    IF DecLt(DecAbs(deviation), config.rebalanceThresholdPercent)
    THEN Decision(FALSE, <<"Deviation ", ToFixed2(deviation),
                           "% below threshold">>, pool, position,
                  DecAbs(deviation))
    ELSE Decision(TRUE, <<"Price moved ", ToFixed2(deviation),
                          "% outside range">>, pool, position,
                  DecAbs(deviation))

\* if (Math.abs(deviation) < this.config.rebalanceThresholdPercent) return
\* {shouldRebalance: false, ...}; return {shouldRebalance: true, ...}
OutOfRangeDecision(pool, position, config, deviation) ==
    IF DecLt(DecAbs(deviation), config.rebalanceThresholdPercent)
    THEN Decision(FALSE, <<"Deviation ", ToFixed2(deviation),
                           "% below threshold">>, pool, position, deviation)
    ELSE Decision(TRUE, <<"Price moved ", ToFixed2(deviation),
                          "% outside range">>, pool, position, deviation)

\* As checkRebalanceNeeded, but with the first two arguments of
\* isTickInRange exchanged.
checkRebalanceNeededSwapped(pool, position, config) ==
    IF isTickInRange(position.tickLower, pool.currentTick, position.tickUpper)
    THEN InRangeDecision(pool, position, config)
    ELSE OutOfRangeDecision(pool, position, config,
             calculatePriceDeviation(pool.currentTick, position.tickLower,
                                     position.tickUpper))

\* The decision for the snapshots fetched
checkRebalanceNeeded(pool, position, config) ==
    IF isTickInRange(pool.currentTick, position.tickLower, position.tickUpper)
    THEN InRangeDecision(pool, position, config)
    ELSE OutOfRangeDecision(pool, position, config,
             calculatePriceDeviation(pool.currentTick, position.tickLower,
                                     position.tickUpper))

(***************************************************************************)
(* RebalanceService.rebalance, step 4: the new range.  calculateTickRange  *)
(* is imported from utils/tickMath.                                        *)
(***************************************************************************)
\* The half-widths computed are below 2^LogBits ticks.
LogBits == 13

\* t extended by n squares of its last element: from <<x^2>>,
\* <<x^2, x^4, ..., x^(2^(n + 1))>>
RECURSIVE Squares(_, _)
Squares(t, n) ==
    IF n = 0 THEN t
    ELSE [s \in Seq(Decimal) |-> Squares(s, n - 1)]
             [Append(t, DecMul(t[Len(t)], t[Len(t)]))]

\* s with bit added to s.m if the power cand = s.acc * x^(2 * bit) does not
\* exceed target
LogStep(target, bit, s, cand) ==
    IF DecCmp(cand, target) <= 0 THEN [m |-> s.m + bit, acc |-> cand] ELSE s

\* The greatest m below s.m + 2^k with x^(2m + 1) <= target, from
\* s.acc = x^(2 * s.m + 1) <= target and sq[i] = x^(2^i)
RECURSIVE LogSearch(_, _, _, _)
LogSearch(sq, target, k, s) ==
    IF k = 0 THEN s.m
    ELSE [t \in [m : Int, acc : Decimal] |-> LogSearch(sq, target, k - 1, t)]
             [LogStep(target, 2^(k - 1), s, DecMul(s.acc, sq[k]))]

\* The least h <= 2^bits with target < x^(2h + 1), for x > 1
RoundLogBits(x, target, bits) ==
    IF DecLt(target, x) THEN 0
    ELSE 1 + LogSearch(Squares(<<DecMul(x, x)>>, bits - 1), target, bits,
                       [m |-> 0, acc |-> x])

\* Math.round(Math.log(ratio) / Math.log(1.0001)) for ratio >= 1: the least
\* h with ratio^2 < 1.0001^(2h + 1)
RoundLogBase(x, target) == RoundLogBits(x, target, LogBits)

\* ratio * ratio
DecSquare(ratio) == DecMul(ratio, ratio)

\* round(log(1 + widthPercent / 200) / log(1.0001))
halfWidthTicks(widthPercent) ==
    RoundLogBase(DecLit(10001, -4),
                 DecSquare(DecAdd(DecOfInt(1),
                                  DecDiv(widthPercent, DecOfInt(200)))))

\* Math.floor(t / tickSpacing) * tickSpacing, Math.ceil(t / tickSpacing) *
\* tickSpacing
AlignDown(t, tickSpacing) == (t \div tickSpacing) * tickSpacing

AlignUp(t, tickSpacing) == -(((-t) \div tickSpacing) * tickSpacing)

\* The outcome of calculateTickRange: a TickRange, or it threw
NoRange == [status |-> "none"]

TickRange(tickLower, tickUpper) ==
    [status |-> "ok", tickLower |-> tickLower, tickUpper |-> tickUpper]

InvalidRangeError == [status |-> "threw", error |-> "InvalidRangeError"]

\* As ValidRange, but returning the range unvalidated.
ValidRangeUnchecked(tickLower, tickUpper) == TickRange(tickLower, tickUpper)

\* Step 4: the bounds lie within [MIN_TICK, MAX_TICK] and tickLower <
\* tickUpper, or InvalidRangeError
ValidRange(tickLower, tickUpper) ==
    IF MIN_TICK <= tickLower /\ tickUpper <= MAX_TICK /\ tickLower < tickUpper
    THEN TickRange(tickLower, tickUpper)
    ELSE InvalidRangeError

\* Step 3: a bound on currentTick moves outward by one tickSpacing.
ShiftOutward(currentTick, tickSpacing, tickLower, tickUpper) ==
    ValidRange(IF tickLower = currentTick THEN tickLower - tickSpacing
               ELSE tickLower,
               IF tickUpper = currentTick THEN tickUpper + tickSpacing
               ELSE tickUpper)

\* Steps 2 and 3: centred on currentTick, tickLower aligned down and
\* tickUpper aligned up
RangeAround(currentTick, tickSpacing, halfWidth) ==
    ShiftOutward(currentTick, tickSpacing,
                 AlignDown(currentTick - halfWidth, tickSpacing),
                 AlignUp(currentTick + halfWidth, tickSpacing))

calculateTickRange(currentTick, widthPercent, tickSpacing) ==
    RangeAround(currentTick, tickSpacing, halfWidthTicks(widthPercent))

\* As NewRange, but centred on the lower bound of the position closed.
NewRangeAroundPosition(pool, position, config) ==
    calculateTickRange(position.tickLower, config.rangeWidthPercent,
                       pool.tickSpacing)

\* const newRange = calculateTickRange(pool.currentTick,
\* this.config.rangeWidthPercent, pool.tickSpacing)
NewRange(pool, position, config) ==
    calculateTickRange(pool.currentTick, config.rangeWidthPercent,
                       pool.tickSpacing)

\* a % b of two numbers, b > 0: the remainder has the sign of a
JsRem(a, b) == IF a >= 0 THEN a % b ELSE -((-a) % b)

\* As NotAligned, but testing the pool's tick in place of tickLower.
NotAlignedCurrentTick(newRange, pool) ==
    \/ JsRem(pool.currentTick, pool.tickSpacing) # 0
    \/ JsRem(newRange.tickUpper, pool.tickSpacing) # 0

\* newRange.tickLower % pool.tickSpacing !== 0 ||
\* newRange.tickUpper % pool.tickSpacing !== 0
NotAligned(newRange, pool) ==
    \/ JsRem(newRange.tickLower, pool.tickSpacing) # 0
    \/ JsRem(newRange.tickUpper, pool.tickSpacing) # 0

\* What the alignment check does with newRange: nothing when
\* calculateTickRange threw, or it throws 'New range ticks not aligned to
\* tick spacing', or it passes.
AlignmentCheck(newRange, pool) ==
    IF newRange.status # "ok" THEN "none"
    ELSE IF NotAligned(newRange, pool) THEN "threw"
    ELSE "aligned"

(***************************************************************************)
(* TickMath: sqrtPriceX64ToTickIndex                                       *)
(***************************************************************************)
\* The binary digits of the greatest tick index found: 2^19 > MAX_TICK
TickLogBits == 19

\* Math.round(price.log(1.0001).toNumber()) for price > 0: the integer n
\* with 1.0001^(n - 1/2) <= price < 1.0001^(n + 1/2).  The logarithm of
\* decimal.js is correct to DecPrecision digits; the powers compared here
\* are correct to 14, so the two agree unless the logarithm is within
\* 10^-10 of a half-integer.
RoundLogPrice(price) ==
    IF DecLt(price, DecOfInt(1))
    THEN -RoundLogBits(DecLit(10001, -4),
                       DecDiv(DecOfInt(1), DecSquare(price)), TickLogBits)
    ELSE RoundLogBits(DecLit(10001, -4), DecSquare(price), TickLogBits)

\* new Decimal(sqrtPriceX64.toString()).div(new Decimal(2).pow(64))
X64ToSqrtPrice(sqrtPriceX64) ==
    DecDiv(StripZeros(1, sqrtPriceX64, 0), DecPow(DecOfInt(2), 64))

\* As sqrtPriceX64ToTickIndex, but taking the logarithm of the sqrt price
\* itself, not of its square.
sqrtPriceX64ToTickIndexOfSqrt(sqrtPriceX64) ==
    RoundLogPrice(X64ToSqrtPrice(sqrtPriceX64))

\* price = sqrtPriceDecimal.pow(2), tick = price.log(1.0001),
\* Math.round(tick.toNumber()); sqrtPriceX64 > 0
sqrtPriceX64ToTickIndex(sqrtPriceX64) ==
    RoundLogPrice(DecPow(X64ToSqrtPrice(sqrtPriceX64), 2))

(***************************************************************************)
(* LiquidityMath: the liquidity / amount formulas of utils/tickMath, in    *)
(* the sqrtPriceX64 domain.  A call returns a value or throws.             *)
(***************************************************************************)
\* throw new DivisionDomainError: the range has no width
DivisionDomainError == [status |-> "threw", value |-> <<"DivisionDomainError">>]

\* BN.min(a, b)
BigMin(a, b) == IF BigLe(a, b) THEN a ELSE b

\* BN.max(a, b)
BigMax(a, b) == IF BigLe(a, b) THEN b ELSE a

\* As getAmountAFromLiquidity, but without the division by the product of
\* the two prices.
getAmountAFromLiquidityNoProduct(sqrtPriceA, sqrtPriceB, liquidity) ==
    IF sqrtPriceA = sqrtPriceB THEN DivisionDomainError
    ELSE Returned(BigDiv(BigMul(liquidity,
                                BigSub(BigMax(sqrtPriceA, sqrtPriceB),
                                       BigMin(sqrtPriceA, sqrtPriceB))),
                         Q64))

\* floor(L * (sqrtB - sqrtA) * 2^64 / (sqrtA * sqrtB)), the prices swapped
\* into ascending order first
getAmountAFromLiquidity(sqrtPriceA, sqrtPriceB, liquidity) ==
    IF sqrtPriceA = sqrtPriceB THEN DivisionDomainError
    ELSE Returned(BigDiv(BigMul(BigMul(liquidity,
                                       BigSub(BigMax(sqrtPriceA, sqrtPriceB),
                                              BigMin(sqrtPriceA, sqrtPriceB))),
                                Q64),
                         BigMul(sqrtPriceA, sqrtPriceB)))

\* As getAmountBFromLiquidity, but without swapping the prices into
\* ascending order: the difference sqrtPriceB - sqrtPriceA as it is, and no
\* amount when it is negative.
getAmountBFromLiquidityUnordered(sqrtPriceA, sqrtPriceB, liquidity) ==
    IF sqrtPriceA = sqrtPriceB THEN DivisionDomainError
    ELSE IF BigLe(sqrtPriceB, sqrtPriceA) THEN Returned(<<>>)
    ELSE Returned(BigDiv(BigMul(liquidity, BigSub(sqrtPriceB, sqrtPriceA)),
                         Q64))

\* floor(L * (sqrtB - sqrtA) / 2^64)
getAmountBFromLiquidity(sqrtPriceA, sqrtPriceB, liquidity) ==
    IF sqrtPriceA = sqrtPriceB THEN DivisionDomainError
    ELSE Returned(BigDiv(BigMul(liquidity,
                                BigSub(BigMax(sqrtPriceA, sqrtPriceB),
                                       BigMin(sqrtPriceA, sqrtPriceB))),
                         Q64))

\* floor(amountA * sqrtA * sqrtB / ((sqrtB - sqrtA) * 2^64))
getLiquidityFromAmountA(sqrtPriceA, sqrtPriceB, amountA) ==
    IF sqrtPriceA = sqrtPriceB THEN DivisionDomainError
    ELSE Returned(BigDiv(BigMul(amountA, BigMul(sqrtPriceA, sqrtPriceB)),
                         BigMul(BigSub(BigMax(sqrtPriceA, sqrtPriceB),
                                       BigMin(sqrtPriceA, sqrtPriceB)),
                                Q64)))

\* As getLiquidityFromAmountB, but returning 0 for a range without width.
getLiquidityFromAmountBZero(sqrtPriceA, sqrtPriceB, amountB) ==
    IF sqrtPriceA = sqrtPriceB THEN Returned(<<>>)
    ELSE Returned(BigDiv(BigMul(amountB, Q64),
                         BigSub(BigMax(sqrtPriceA, sqrtPriceB),
                                BigMin(sqrtPriceA, sqrtPriceB))))

\* floor(amountB * 2^64 / (sqrtB - sqrtA))
getLiquidityFromAmountB(sqrtPriceA, sqrtPriceB, amountB) ==
    IF sqrtPriceA = sqrtPriceB THEN DivisionDomainError
    ELSE Returned(BigDiv(BigMul(amountB, Q64),
                         BigSub(BigMax(sqrtPriceA, sqrtPriceB),
                                BigMin(sqrtPriceA, sqrtPriceB))))

\* The lesser of two liquidity candidates; an error of either is thrown.
MinLiquidity(a, b) ==
    IF a.status = "threw" THEN a
    ELSE IF b.status = "threw" THEN b
    ELSE Returned(BigMin(a.value, b.value))

\* As getLiquidityFromAmounts, but taking the greater candidate inside the
\* range.
getLiquidityFromAmountsMax(sqrtPriceCurrent, sqrtPriceLower, sqrtPriceUpper, amountA, amountB) ==
    IF BigLe(sqrtPriceCurrent, sqrtPriceLower)
    THEN getLiquidityFromAmountA(sqrtPriceLower, sqrtPriceUpper, amountA)
    ELSE IF BigLe(sqrtPriceUpper, sqrtPriceCurrent)
    THEN getLiquidityFromAmountB(sqrtPriceLower, sqrtPriceUpper, amountB)
    ELSE Returned(BigMax(
             getLiquidityFromAmountA(sqrtPriceCurrent, sqrtPriceUpper,
                                     amountA).value,
             getLiquidityFromAmountB(sqrtPriceLower, sqrtPriceCurrent,
                                     amountB).value))

\* As getLiquidityFromAmounts, but taking the candidate of token A alone
\* inside the range.
getLiquidityFromAmountsOfA(sqrtPriceCurrent, sqrtPriceLower, sqrtPriceUpper, amountA, amountB) ==
    IF BigLe(sqrtPriceUpper, sqrtPriceCurrent)
    THEN getLiquidityFromAmountB(sqrtPriceLower, sqrtPriceUpper, amountB)
    ELSE getLiquidityFromAmountA(BigMax(sqrtPriceCurrent, sqrtPriceLower),
                                 sqrtPriceUpper, amountA)

\* The liquidity that amountA and amountB provide on the range at the
\* current price: the limiting candidate inside the range, the candidate of
\* the one token that participates outside it.
getLiquidityFromAmounts(sqrtPriceCurrent, sqrtPriceLower, sqrtPriceUpper, amountA, amountB) ==
    IF BigLe(sqrtPriceCurrent, sqrtPriceLower)
    THEN getLiquidityFromAmountA(sqrtPriceLower, sqrtPriceUpper, amountA)
    ELSE IF BigLe(sqrtPriceUpper, sqrtPriceCurrent)
    THEN getLiquidityFromAmountB(sqrtPriceLower, sqrtPriceUpper, amountB)
    ELSE MinLiquidity(
             getLiquidityFromAmountA(sqrtPriceCurrent, sqrtPriceUpper, amountA),
             getLiquidityFromAmountB(sqrtPriceLower, sqrtPriceCurrent, amountB))

\* { amountA, amountB } of two calls; an error of either is thrown.
Amounts(a, b) ==
    IF a.status = "threw" THEN a
    ELSE IF b.status = "threw" THEN b
    ELSE Returned([amountA |-> a.value, amountB |-> b.value])

\* The amounts that liquidity holds on the range at the current price, zero
\* for the token that does not participate.
getAmountsFromLiquidity(sqrtPriceCurrent, sqrtPriceLower, sqrtPriceUpper, liquidity) ==
    IF BigLe(sqrtPriceCurrent, sqrtPriceLower)
    THEN Amounts(getAmountAFromLiquidity(sqrtPriceLower, sqrtPriceUpper,
                                         liquidity),
                 Returned(<<>>))
    ELSE IF BigLe(sqrtPriceUpper, sqrtPriceCurrent)
    THEN Amounts(Returned(<<>>),
                 getAmountBFromLiquidity(sqrtPriceLower, sqrtPriceUpper,
                                         liquidity))
    ELSE Amounts(getAmountAFromLiquidity(sqrtPriceCurrent, sqrtPriceUpper,
                                         liquidity),
                 getAmountBFromLiquidity(sqrtPriceLower, sqrtPriceCurrent,
                                         liquidity))

(***************************************************************************)
(* RebalanceService.calculateExpectedAmounts: the amounts of the position   *)
(* being closed                                                            *)
(***************************************************************************)
\* tickToSqrtPrice(tick): the sqrt price of a tick, as tickIndexToSqrtPriceX64
tickToSqrtPrice(tick) == tickIndexToSqrtPriceX64(tick)

\* As ExpectedAmountsAt, but with both regimes outside the range giving
\* token A alone.
ExpectedAmountsAtOnlyA(sqrtPriceCurrent, sqrtPriceLower, sqrtPriceUpper, liquidity) ==
    IF sqrtPriceLower.status = "threw" THEN sqrtPriceLower
    ELSE IF sqrtPriceUpper.status = "threw" THEN sqrtPriceUpper
    ELSE IF \/ BigLe(sqrtPriceCurrent, sqrtPriceLower.value)
            \/ BigLe(sqrtPriceUpper.value, sqrtPriceCurrent)
    THEN Amounts(getAmountAFromLiquidity(sqrtPriceLower.value,
                                         sqrtPriceUpper.value, liquidity),
                 Returned(<<>>))
    ELSE Amounts(getAmountAFromLiquidity(sqrtPriceCurrent,
                                         sqrtPriceUpper.value, liquidity),
                 getAmountBFromLiquidity(sqrtPriceLower.value,
                                         sqrtPriceCurrent, liquidity))

\* The three branches of calculateExpectedAmounts, from the outcomes of the
\* two tickToSqrtPrice calls
ExpectedAmountsAt(sqrtPriceCurrent, sqrtPriceLower, sqrtPriceUpper, liquidity) ==
    IF sqrtPriceLower.status = "threw" THEN sqrtPriceLower
    ELSE IF sqrtPriceUpper.status = "threw" THEN sqrtPriceUpper
    ELSE IF BigLe(sqrtPriceCurrent, sqrtPriceLower.value)
    THEN Amounts(getAmountAFromLiquidity(sqrtPriceLower.value,
                                         sqrtPriceUpper.value, liquidity),
                 Returned(<<>>))
    ELSE IF BigLe(sqrtPriceUpper.value, sqrtPriceCurrent)
    THEN Amounts(Returned(<<>>),
                 getAmountBFromLiquidity(sqrtPriceLower.value,
                                         sqrtPriceUpper.value, liquidity))
    ELSE Amounts(getAmountAFromLiquidity(sqrtPriceCurrent,
                                         sqrtPriceUpper.value, liquidity),
                 getAmountBFromLiquidity(sqrtPriceLower.value,
                                         sqrtPriceCurrent, liquidity))

\* calculateExpectedAmounts(pool, position)
calculateExpectedAmounts(pool, position) ==
    ExpectedAmountsAt(pool.currentSqrtPrice,
                      tickToSqrtPrice(position.tickLower),
                      tickToSqrtPrice(position.tickUpper),
                      position.liquidity)

(***************************************************************************)
(* Number: the doubles of the slippage arithmetic.  A double is a record   *)
(* [m, e] of value m * 2^e with m a BN of at most 53 bits; an operation    *)
(* returns the double nearest to the exact result, ties to even.           *)
(***************************************************************************)
\* The binary digits of a double's significand
DoubleBits == 53

\* 2^k as a BN
RECURSIVE BigPow2(_)
BigPow2(k) ==
    IF k = 0 THEN <<1>>
    ELSE [h \in BN |-> IF k % 2 = 1 THEN BigMulSmall(BigMul(h, h), 2)
                       ELSE BigMul(h, h)]
             [BigPow2(k \div 2)]

\* The number of bits of n > 0.  The leading limb and the number of limbs
\* below it (each log2(Base) = 13.28771... bits) place it within two units.
BitLength(n) ==
    CHOOSE b \in ((CHOOSE t \in 1..14 : 2^(t - 1) <= n[Len(n)] /\ n[Len(n)] < 2^t)
                     + (1328771 * (Len(n) - 1)) \div 100000)
                 ..((CHOOSE t \in 1..14 : 2^(t - 1) <= n[Len(n)] /\ n[Len(n)] < 2^t)
                     + (1328771 * (Len(n) - 1)) \div 100000 + 2) :
        BigLe(BigPow2(b - 1), n) /\ BigLt(n, BigPow2(b))

\* The exponent e of the double nearest to n / d, for n, d > 0: the one
\* with 2^(DoubleBits - 1) <= n / (d * 2^e) < 2^DoubleBits.
DoubleExponentAt(n, d, shift) ==
    IF BigLe(BigMul(d, BigPow2(Max(shift, 0))), BigMul(n, BigPow2(Max(-shift, 0))))
    THEN shift - DoubleBits + 1
    ELSE shift - DoubleBits

DoubleExponent(n, d) == DoubleExponentAt(n, d, BitLength(n) - BitLength(d))

\* The quotient q of num by den, rounded to nearest, ties to even
RoundHalfEven(q, num, den) ==
    IF BigLt(den, BigMulSmall(BigSub(num, BigMul(q, den)), 2))
    THEN BigAdd(q, <<1>>)
    ELSE IF den = BigMulSmall(BigSub(num, BigMul(q, den)), 2) /\ q[1] % 2 = 1
    THEN BigAdd(q, <<1>>)
    ELSE q

\* The double nearest to n / d, of exponent e
DoubleAt(n, d, e) ==
    [m |-> [q \in BN |-> RoundHalfEven(q, BigMul(n, BigPow2(Max(-e, 0))),
                                       BigMul(d, BigPow2(Max(e, 0))))]
               [BigDiv(BigMul(n, BigPow2(Max(-e, 0))),
                       BigMul(d, BigPow2(Max(e, 0))))],
     e |-> e]

\* The double nearest to (n / d) * 2^e, for BNs n and d > 0
DoubleOf(n, d, e) ==
    IF n = <<>> THEN [m |-> <<>>, e |-> 0]
    ELSE [x \in [m : BN, e : Int] |-> [x EXCEPT !.e = @ + e]]
             [DoubleAt(n, d, DoubleExponent(n, d))]

\* BigInt(Math.floor(x)) for a double x >= 0
DoubleFloor(x) ==
    IF x.e >= 0 THEN BigMul(x.m, BigPow2(x.e))
    ELSE BigDiv(x.m, BigPow2(-x.e))

(***************************************************************************)
(* RebalanceService: the minimum amounts of the withdrawal                 *)
(***************************************************************************)
\* slippageFactor = (100 - this.config.maxSlippagePercent) / 100, for
\* maxSlippagePercent the double n / d <= 100 (d a power of 2)
slippageFactor(maxSlippagePercent) ==
    [x \in [m : BN, e : Int] |-> DoubleOf(x.m, <<100>>, x.e)]
        [DoubleOf(BigOf(100 * maxSlippagePercent.d - maxSlippagePercent.n),
                  BigOf(maxSlippagePercent.d), 0)]

\* BigInt(Math.floor(Number(expectedAmount) * slippageFactor))
MinAmount(expectedAmount, factor) ==
    [x \in [m : BN, e : Int] |->
         DoubleFloor(DoubleOf(BigMul(x.m, factor.m), <<1>>, x.e + factor.e))]
        [DoubleOf(expectedAmount, <<1>>, 0)]

\* minAmountA and minAmountB of rebalance, from the outcome of
\* calculateExpectedAmounts
MinAmounts(expectedAmounts, factor) ==
    IF expectedAmounts.status = "threw" THEN expectedAmounts
    ELSE Returned([minAmountA |-> MinAmount(expectedAmounts.value.amountA,
                                            factor),
                   minAmountB |-> MinAmount(expectedAmounts.value.amountB,
                                            factor)])

\* The arguments of the remove_liquidity call that buildRebalancePTB adds
\* to the transaction; none if rebalance threw before.
RemoveLiquidityWithMinimums(position, minAmounts) ==
    IF minAmounts.status = "threw" THEN minAmounts
    ELSE Returned([liquidity |-> position.liquidity,
                   minAmountA |-> minAmounts.value.minAmountA,
                   minAmountB |-> minAmounts.value.minAmountB])

\* The arguments of the remove_liquidity call of removeLiquidity(position):
\* tx.pure.u64('0') for both minimums
RemoveLiquidityCall(position) ==
    Returned([liquidity |-> position.liquidity,
              minAmountA |-> <<>>,
              minAmountB |-> <<>>])

(***************************************************************************)
(* RebalanceService: the transactions.  A transaction is the sequence of   *)
(* its commands; a command is a Move call or a built-in, with the          *)
(* arguments that vary.                                                    *)
(***************************************************************************)
Threw(error) == [status |-> "threw", value |-> error]

\* ptb.moveCall({target: `${packageId}::pool_script::<target>`, arguments})
MoveCall(target, arguments) == [target |-> target, arguments |-> arguments]

\* The swap_b2a or swap_a2b call with its minimum amount out, and the merge
\* of the coin it returns
SwapAndMerge(target, minAmountOut, into) ==
    <<MoveCall(target, [minAmountOut |-> minAmountOut]),
      MoveCall("mergeCoins", [destination |-> into])>>

\* The commands addSwapIfNeeded adds for the sqrt prices of the new range:
\* a swap of B to A below the range, of A to B above it, none inside
SwapIfNeededAt(sqrtPriceCurrent, sqrtPriceLower, sqrtPriceUpper) ==
    IF sqrtPriceLower.status = "threw" THEN sqrtPriceLower
    ELSE IF sqrtPriceUpper.status = "threw" THEN sqrtPriceUpper
    ELSE IF BigLt(sqrtPriceCurrent, sqrtPriceLower.value)
    THEN Returned(SwapAndMerge("swap_b2a", <<>>, "coinA"))
    ELSE IF BigLt(sqrtPriceUpper.value, sqrtPriceCurrent)
    THEN Returned(SwapAndMerge("swap_a2b", <<>>, "coinB"))
    ELSE Returned(<<>>)

addSwapIfNeeded(pool, newRange) ==
    SwapIfNeededAt(pool.currentSqrtPrice, tickToSqrtPrice(newRange.tickLower),
                   tickToSqrtPrice(newRange.tickUpper))

\* As OpenPosition, but passing the ticks themselves as the magnitudes.
OpenPositionSigned(newRange) ==
    MoveCall("open_position",
             [tickLowerAbs |-> newRange.tickLower,
              isTickLowerNegative |-> newRange.tickLower < 0,
              tickUpperAbs |-> newRange.tickUpper,
              isTickUpperNegative |-> newRange.tickUpper < 0])

\* open_position: the ticks as absolute values with sign flags
OpenPosition(newRange) ==
    MoveCall("open_position",
             [tickLowerAbs |-> Abs(newRange.tickLower),
              isTickLowerNegative |-> newRange.tickLower < 0,
              tickUpperAbs |-> Abs(newRange.tickUpper),
              isTickUpperNegative |-> newRange.tickUpper < 0])

\* Steps 1 to 4 and 6 to 8 of buildRebalancePTB around the commands of
\* step 5
PTBAround(position, newRange, minAmounts, swap) ==
    IF swap.status = "threw" THEN swap
    ELSE Returned(
             <<MoveCall("remove_liquidity",
                        RemoveLiquidityWithMinimums(position,
                                                    Returned(minAmounts)).value),
               MoveCall("collect_fee", [position |-> "position"]),
               MoveCall("mergeCoins", [destination |-> "removedCoinA"]),
               MoveCall("mergeCoins", [destination |-> "removedCoinB"]),
               MoveCall("close_position", [position |-> "position"])>>
             \o swap.value
             \o <<OpenPosition(newRange),
                  MoveCall("add_liquidity",
                           [minAmountA |-> minAmounts.minAmountA,
                            minAmountB |-> minAmounts.minAmountB]),
                  MoveCall("transferObjects", [objects |-> "newPosition"])>>)

buildRebalancePTB(pool, position, newRange, minAmounts) ==
    PTBAround(position, newRange, minAmounts, addSwapIfNeeded(pool, newRange))

\* rebalance of the atomic service after the gas price check, up to the
\* transaction it executes: the range and its alignment are validated, the
\* minimum amounts computed, the transaction built.
RebalancePTB(pool, position, newRange, alignment, minAmounts) ==
    IF newRange.status # "ok" THEN Threw(<<newRange.error>>)
    ELSE IF alignment = "threw"
    THEN Threw(<<"New range ticks not aligned to tick spacing">>)
    ELSE IF minAmounts.status = "threw" THEN minAmounts
    ELSE buildRebalancePTB(pool, position, newRange, minAmounts.value)

\* The transactions of removeLiquidity, collectFees and addLiquidity of the
\* step-by-step service
RemoveLiquidityTx(position) ==
    <<MoveCall("remove_liquidity", RemoveLiquidityCall(position).value)>>

CollectFeesTx == <<MoveCall("collect_fee", [position |-> "position"])>>

AddLiquidityTx(newRange) == <<OpenPosition(newRange)>>

(***************************************************************************)
(* SuiClientService                                                        *)
(***************************************************************************)
\* As checkGasPrice, but throwing at the maximum too.
checkGasPriceAtLeast(gasPrice, config) ==
    IF gasPrice.status = "threw" THEN gasPrice
    ELSE IF gasPrice.value >= config.maxGasPrice
    THEN Threw(<<"Gas price exceeds maximum">>)
    ELSE Returned(<<>>)

\* checkGasPrice(), for the outcome of getGasPrice(): it throws what
\* getGasPrice threw, or when gasPrice > BigInt(this.config.maxGasPrice)
checkGasPrice(gasPrice, config) ==
    IF gasPrice.status = "threw" THEN gasPrice
    ELSE IF gasPrice.value > config.maxGasPrice
    THEN Threw(<<"Gas price exceeds maximum">>)
    ELSE Returned(<<>>)

\* As maxRetries, but one more.
maxRetriesSix == 5 + 1

\* const maxRetries = 5 of executeTransactionWithoutSimulation
maxRetries == 5

\* this.config.minRetryDelayMs || 1000 and this.config.maxRetryDelayMs ||
\* 30000
OrDefault(ms, default) == IF ms = 0 THEN default ELSE ms

\* As RetryDelay, but without the maximum.
RetryDelayUncapped(attempt, config) ==
    OrDefault(config.minRetryDelayMs, 1000) * 2^attempt

\* Math.min(baseDelay * Math.pow(2, attempt), maxDelay)
RetryDelay(attempt, config) ==
    Min(OrDefault(config.minRetryDelayMs, 1000) * 2^attempt,
        OrDefault(config.maxRetryDelayMs, 30000))

\* new Error(`Transaction execution failed: ...`) of an attempt
ExecutionFailed(attempt) == <<"Transaction execution failed", attempt>>

(***************************************************************************)
(* utils/poolHelper: closestActiveRange and isOutOfRange.  The Pool has    *)
(* tickCurrent, tickSpacing and sqrtPriceX64.                              *)
(***************************************************************************)
\* Math.round(n / d) of the double n / d, for integers n and d > 0 whose
\* quotient is a multiple of 1 / d: the nearest integer, and the greater one
\* of two that are equally near.
JsRound(n, d) == (2 * n + d) \div (2 * d)

\* As CandidateTickLower, but with Math.floor in place of Math.round.
CandidateTickLowerFloor(pool, multiplier) ==
    ((2 * pool.tickCurrent - multiplier * pool.tickSpacing)
        \div (2 * pool.tickSpacing)) * pool.tickSpacing

\* halfRange = (multiplier * pool.tickSpacing) / 2; candidateTickLower =
\* Math.round((pool.tickCurrent - halfRange) / pool.tickSpacing) *
\* pool.tickSpacing.  The quotient is that of 2 * tickCurrent - multiplier *
\* tickSpacing by 2 * tickSpacing.
CandidateTickLower(pool, multiplier) ==
    JsRound(2 * pool.tickCurrent - multiplier * pool.tickSpacing,
            2 * pool.tickSpacing) * pool.tickSpacing

\* let lowerTick = candidateTickLower; if (currentSqrtPriceX64.lt(
\* tickIndexToSqrtPriceX64(pool.tickCurrent))) { if (lowerTick ===
\* pool.tickCurrent) lowerTick -= pool.tickSpacing; }
LowerTick(candidate, pool, price) ==
    IF BigLt(pool.sqrtPriceX64, price) /\ candidate = pool.tickCurrent
    THEN candidate - pool.tickSpacing
    ELSE candidate

\* return [lowerTick, lowerTick + multiplier * pool.tickSpacing]; price is
\* the outcome of tickIndexToSqrtPriceX64(pool.tickCurrent), which is thrown
\* on when it threw.
ActiveRangeFrom(candidate, pool, multiplier, price) ==
    IF price.status = "threw" THEN price
    ELSE [lowerTick \in Int |->
             Returned(<<lowerTick,
                        lowerTick + multiplier * pool.tickSpacing>>)]
             [LowerTick(candidate, pool, price.value)]

\* As closestActiveRange, but rounding the candidate down.
closestActiveRangeFloor(pool, multiplier) ==
    ActiveRangeFrom(CandidateTickLowerFloor(pool, multiplier), pool,
                    multiplier, tickIndexToSqrtPriceX64(pool.tickCurrent))

closestActiveRange(pool, multiplier) ==
    ActiveRangeFrom(CandidateTickLower(pool, multiplier), pool, multiplier,
                    tickIndexToSqrtPriceX64(pool.tickCurrent))

\* position.tickLower !== activeTicks[0] ||
\* position.tickUpper !== activeTicks[1]
DiffersFrom(position, ticks) ==
    IF ticks.status = "threw" THEN ticks
    ELSE Returned(\/ position.tickLower # ticks.value[1]
                  \/ position.tickUpper # ticks.value[2])

isOutOfRange(position, multiplier) ==
    DiffersFrom(position, closestActiveRange(position.pool, multiplier))

(***************************************************************************)
(* execution/collectFees: collectReward and collectAllRewards.  An array   *)
(* of the position is the sequence of whether each entry is there (an      *)
(* entry that is not is undefined or null); an index past its end has no   *)
(* entry.  A transaction is the sequence of its commands.                  *)
(***************************************************************************)
\* array[index] is there (index counts from 0).
HasEntry(array, index) == index + 1 \in DOMAIN array /\ array[index + 1]

\* tx.moveCall({target: `${config.packageId}::pool::collect_reward`, ...})
\* appended to tx, and its result
CollectRewardCall(tx, rewardIndex) ==
    [outcome |-> Returned([rewardIndex |-> rewardIndex,
                           command |-> Len(tx) + 1]),
     tx |-> Append(tx, MoveCall("collect_reward",
                                [rewardIndex |-> rewardIndex]))]

\* As collectReward, but looking for the pool reward after the Move call.
collectRewardCallFirst(position, tx, rewardIndex) ==
    IF ~HasEntry(position.rewardInfos, rewardIndex)
    THEN [outcome |-> Threw(<<"No reward at index", rewardIndex>>),
          tx |-> tx]
    ELSE IF ~HasEntry(position.pool.poolRewards, rewardIndex)
    THEN [outcome |-> Threw(<<"No pool reward at index", rewardIndex>>),
          tx |-> CollectRewardCall(tx, rewardIndex).tx]
    ELSE CollectRewardCall(tx, rewardIndex)

\* collectReward(position, tx, rewardIndex): what it returns or throws, and
\* tx after it.  if (!rewardInfo) throw ...; if (!poolReward) throw ...;
\* const [reward] = tx.moveCall(...); return reward
collectReward(position, tx, rewardIndex) ==
    IF ~HasEntry(position.rewardInfos, rewardIndex)
    THEN [outcome |-> Threw(<<"No reward at index", rewardIndex>>),
          tx |-> tx]
    ELSE IF ~HasEntry(position.pool.poolRewards, rewardIndex)
    THEN [outcome |-> Threw(<<"No pool reward at index", rewardIndex>>),
          tx |-> tx]
    ELSE CollectRewardCall(tx, rewardIndex)

(***************************************************************************)
(* The state.  One group of variables per component; a specification moves *)
(* one group and leaves the others as they start.                          *)
(***************************************************************************)
VARIABLES
    tick,              \* the argument of the latest tickIndexToSqrtPriceX64 call
    sqrtPriceX64,      \* its outcome
    prevTick,          \* the argument and outcome of the call before it
    prevSqrtPriceX64,
    calls,             \* the number of calls made
    tickIndex,         \* the outcome of sqrtPriceX64ToTickIndex on sqrtPriceX64
    pool,              \* the Pool fetched: currentTick, tickSpacing
    position,          \* the Position fetched: tickLower, tickUpper
    config,            \* the BotConfig: rebalanceThresholdPercent, rangeWidthPercent
    decision,          \* the outcome of the latest checkRebalanceNeeded
    checks,            \* the number of checks made
    newRange,          \* the outcome of calculateTickRange in the latest rebalance
    alignment,         \* the outcome of its alignment check
    rebalances,        \* the number of rebalances after the first
    ticks,             \* the ticks of a pool's price and of a range
    prices,            \* their sqrt prices
    amountIn,          \* the token amounts a caller provides
    formulas,          \* the outcomes of the four single-sided formulas
    liquidity,         \* the outcome of getLiquidityFromAmounts
    amountsBack,       \* the outcome of getAmountsFromLiquidity on it
    expected,          \* the outcome of calculateExpectedAmounts
    maxSlippagePercent, \* config.maxSlippagePercent of the RebalanceService
    minAmounts,        \* the outcome of its slippage arithmetic
    removeCall,        \* the remove_liquidity call of its rebalance
    prevTicks,         \* the range before the latest one, and the
    prevLiquidity,     \* liquidity the same amounts provided on it
    ranges,            \* the number of ranges after the first
    \* RebalancingBot, RebalanceService and SuiClientService
    service,           \* the RebalanceService deployed: "steps" or "atomic"
    client,            \* the SuiClientService deployed, by its file
    pc,                \* the call of the check cycle that runs next
    phase,             \* within executeTransaction: "simulate" or "submit"
    cycles,            \* the number of check cycles after the first
    stateFetched,      \* getCurrentState() was called in this cycle
    gasPrice,          \* the outcome of getGasPrice()
    started,           \* the steps of rebalance begun in this cycle
    txs,               \* the transactions built in this cycle
    chain,             \* the dry runs and submissions the node received
    attempt,           \* attempt of executeWithTypeArgRetry
    delays,            \* the waits of executeWithTypeArgRetry, in ms
    lastError,         \* lastError of executeWithTypeArgRetry
    outcome,           \* the outcome of rebalance()
    \* RebalancingBot: start(), stop() and the interval timer
    isRunning,         \* this.isRunning
    intervalId,        \* this.intervalId: a timer, or 0 for null
    timers,            \* the interval timers scheduled
    created,           \* the number of setInterval calls made
    inFlight,          \* the checkAndRebalance calls that are awaiting
    lastEvent,         \* the latest call, timer tick or caught error
    handed,            \* the latest decision and the pool rebalance() got
    decisions,         \* what checkRebalanceNeeded() returns at each tick
    \* utils/poolHelper
    helperPool,        \* the Pool: tickCurrent, tickSpacing, sqrtPriceX64
    multiplier,        \* the width of the active range, in tick spacings
    activeTicks,       \* the outcome of closestActiveRange
    helperPosition,    \* the bounds of the Position of that pool
    outOfRange,        \* the outcome of isOutOfRange
    \* the open_position call of addLiquidity
    tickRange,         \* the range to open
    openCall,          \* the outcome of building the call
    \* execution/collectFees
    rewardInfos,       \* position.rewardInfos: which entries are there
    poolRewards,       \* position.pool.poolRewards: which entries are there
    rewardIndex,       \* i of the loop of collectAllRewards
    attempted,         \* the indexes collectReward was called with
    rewards,           \* rewards of collectAllRewards
    moveCalls,         \* the Move calls appended to tx
    warnings,          \* the indexes whose failure was logged
    collected          \* the outcome of collectAllRewards

tickMathVars ==
    <<tick, sqrtPriceX64, prevTick, prevSqrtPriceX64, calls, tickIndex>>

monitorVars == <<pool, position, config, decision, checks>>

rebalanceVars == <<newRange, alignment, rebalances>>

liquidityVars ==
    <<ticks, prices, amountIn, formulas, liquidity, amountsBack, expected,
      maxSlippagePercent, minAmounts, removeCall, prevTicks, prevLiquidity,
      ranges>>

botVars ==
    <<service, client, pc, phase, cycles, stateFetched, gasPrice, started,
      txs, chain, attempt, delays, lastError, outcome>>

lifecycleVars ==
    <<isRunning, intervalId, timers, created, inFlight, lastEvent, handed,
      decisions>>

helperVars ==
    <<helperPool, multiplier, activeTicks, helperPosition, outOfRange>>

encodingVars == <<tickRange, openCall>>

rewardVars ==
    <<rewardInfos, poolRewards, rewardIndex, attempted, rewards, moveCalls,
      warnings, collected>>

outerVars == <<lifecycleVars, helperVars, encodingVars, rewardVars>>

vars ==
    <<tickMathVars, monitorVars, rebalanceVars, liquidityVars, botVars,
      outerVars>>

\* No tick has been converted and none will be.
TickMathIdle ==
    /\ tick = 0
    /\ sqrtPriceX64 = NoResult
    /\ prevTick = 0
    /\ prevSqrtPriceX64 = NoResult
    /\ calls = 0
    /\ tickIndex = NoResult

\* REBALANCE_THRESHOLD_PERCENT=2.0, RANGE_WIDTH_PERCENT=5.0,
\* MAX_GAS_PRICE=1000000000, MIN_RETRY_DELAY_MS=1000, MAX_RETRY_DELAY_MS=30000
DefaultConfig ==
    [rebalanceThresholdPercent |-> DecOfInt(2),
     rangeWidthPercent |-> DecOfInt(5),
     maxGasPrice |-> 1000000000,
     minRetryDelayMs |-> 1000,
     maxRetryDelayMs |-> 30000]

\* No position is monitored.
MonitorIdle ==
    /\ pool = [currentTick |-> 0, tickSpacing |-> 60]
    /\ position = [tickLower |-> -1000, tickUpper |-> 1000]
    /\ config = DefaultConfig
    /\ decision = NoDecision
    /\ checks = 0

\* No rebalance has begun.
RebalanceIdle ==
    /\ newRange = NoRange
    /\ alignment = "none"
    /\ rebalances = 0

\* The sqrt prices of three ticks within the bounds
SqrtPricesAt(t) ==
    [k \in {"current", "lower", "upper"} |-> TickToX64(t[k])]

\* The pool at tick 0 and the range [-1000, 1000] of the unit tests
UnitTestTicks == [current |-> 0, lower |-> -1000, upper |-> 1000]

\* MAX_SLIPPAGE_PERCENT=1.0, as the double n / d
DefaultSlippage == [n |-> 1, d |-> 1]

\* No amount and no liquidity has been computed and none will be.
LiquidityIdle ==
    /\ ticks = UnitTestTicks
    /\ prices = <<>>
    /\ amountIn = [amountA |-> <<>>, amountB |-> <<>>]
    /\ formulas = NoResult
    /\ liquidity = NoResult
    /\ amountsBack = NoResult
    /\ expected = NoResult
    /\ maxSlippagePercent = DefaultSlippage
    /\ minAmounts = NoResult
    /\ removeCall = NoResult
    /\ prevTicks = UnitTestTicks
    /\ prevLiquidity = NoResult
    /\ ranges = 0

\* No bot runs.
BotIdle ==
    /\ service = "steps"
    /\ client = "suiClient.ts"
    /\ pc = "done"
    /\ phase = "none"
    /\ cycles = 0
    /\ stateFetched = FALSE
    /\ gasPrice = NoResult
    /\ started = <<>>
    /\ txs = <<>>
    /\ chain = <<>>
    /\ attempt = 0
    /\ delays = <<>>
    /\ lastError = <<>>
    /\ outcome = NoResult

\* No checkAndRebalance call awaits.
NoCycle == [by |-> "none", pc |-> "none", decision |-> NoDecision]

\* rebalance() has not been called.
NothingHanded == [decision |-> NoDecision, pool |-> <<>>]

\* The bot as constructed: isRunning = false, intervalId = null
LifecycleIdle ==
    /\ isRunning = FALSE
    /\ intervalId = 0
    /\ timers = {}
    /\ created = 0
    /\ inFlight = <<>>
    /\ lastEvent = [kind |-> "none"]
    /\ handed = NothingHanded
    /\ decisions = <<>>

\* closestActiveRange has not been called.
HelperIdle ==
    /\ helperPool = [tickCurrent |-> 0, tickSpacing |-> 60,
                     sqrtPriceX64 |-> Q64]
    /\ multiplier = 1
    /\ activeTicks = NoResult
    /\ helperPosition = [tickLower |-> 0, tickUpper |-> 60]
    /\ outOfRange = NoResult

\* No position is being opened.
EncodingIdle ==
    /\ tickRange = [tickLower |-> -60, tickUpper |-> 60]
    /\ openCall = NoResult

\* No reward is being collected.
RewardIdle ==
    /\ rewardInfos = <<>>
    /\ poolRewards = <<>>
    /\ rewardIndex = 0
    /\ attempted = <<>>
    /\ rewards = <<>>
    /\ moveCalls = <<>>
    /\ warnings = <<>>
    /\ collected = NoResult

\* Nothing outside the services is in use.
OuterIdle ==
    /\ LifecycleIdle
    /\ HelperIdle
    /\ EncodingIdle
    /\ RewardIdle

(***************************************************************************)
(* SpecTickMath: a caller converts a tick, then a tick above it, and so on. *)
(***************************************************************************)
\* The calls after the first one
MaxCalls == 2

\* The distance to a tick far above
TickStride == 1009

\* The first ticks converted: at and around the bounds and zero, the ticks
\* of the unit tests, and ticks in between.
TickSamples ==
    {MIN_TICK - 2, MIN_TICK - 1, MIN_TICK, MIN_TICK + 1, -500000, -400001,
     -200000, -1000, -2, -1, 0, 1, 1000, 123456, 300000, 399999,
     MAX_TICK - 2, MAX_TICK - 1, MAX_TICK, MAX_TICK + 1, 500000}

TickMathInit ==
    /\ tick \in TickSamples
    /\ sqrtPriceX64 = NoResult
    /\ prevTick = 0
    /\ prevSqrtPriceX64 = NoResult
    /\ calls = 0
    /\ tickIndex = NoResult
    /\ MonitorIdle
    /\ RebalanceIdle
    /\ LiquidityIdle
    /\ BotIdle
    /\ OuterIdle

\* tickIndexToSqrtPriceX64(tick) is called
Convert ==
    /\ sqrtPriceX64 = NoResult
    /\ sqrtPriceX64' = tickIndexToSqrtPriceX64(tick)
    /\ UNCHANGED <<tick, prevTick, prevSqrtPriceX64, calls, tickIndex>>
    /\ UNCHANGED <<monitorVars, rebalanceVars, liquidityVars, botVars, outerVars>>

\* sqrtPriceX64ToTickIndex is called on the value returned
ConvertBack ==
    /\ sqrtPriceX64.status = "ok"
    /\ tickIndex = NoResult
    /\ tickIndex' = Returned(sqrtPriceX64ToTickIndex(sqrtPriceX64.value))
    /\ UNCHANGED <<tick, sqrtPriceX64, prevTick, prevSqrtPriceX64, calls>>
    /\ UNCHANGED <<monitorVars, rebalanceVars, liquidityVars, botVars, outerVars>>

\* The caller goes on to the next tick, or to one TickStride above.
NextTick ==
    /\ sqrtPriceX64 # NoResult
    /\ calls < MaxCalls
    /\ \E d \in {1, TickStride} : tick' = tick + d
    /\ prevTick' = tick
    /\ prevSqrtPriceX64' = sqrtPriceX64
    /\ sqrtPriceX64' = NoResult
    /\ tickIndex' = NoResult
    /\ calls' = calls + 1
    /\ UNCHANGED <<monitorVars, rebalanceVars, liquidityVars, botVars, outerVars>>

TickMathNext == Convert \/ ConvertBack \/ NextTick

SpecTickMath == TickMathInit /\ [][TickMathNext]_vars

\* C8: a call of tickIndexToSqrtPriceX64(tick) throws if and only if
\* tick < -443636 or tick > 443636: the bounds themselves are converted, and
\* a tick outside them never comes back as a value (it is not clamped).
C8_ThrowsIffOutOfBounds ==
    sqrtPriceX64 # NoResult =>
        /\ sqrtPriceX64.status = "threw" <=> (tick < -443636 \/ tick > 443636)
        /\ sqrtPriceX64.status = "ok" <=> (-443636 <= tick /\ tick <= 443636)

\* MAX_TICK was converted and the call for the tick above it threw.
C8_Witness ==
    /\ prevTick = 443636
    /\ prevSqrtPriceX64.status = "ok"
    /\ tick = 443637
    /\ sqrtPriceX64.status = "threw"

\* C9: tickIndexToSqrtPriceX64(0) returns 2^64 = 18446744073709551616
\* exactly.
C9_TickZeroIsQ64 ==
    (tick = 0 /\ sqrtPriceX64 # NoResult) => sqrtPriceX64 = Returned(Q64)

\* Tick 0 was converted, after tick -1.
C9_Witness ==
    /\ tick = 0
    /\ sqrtPriceX64.status = "ok"
    /\ prevTick = -1
    /\ prevSqrtPriceX64.status = "ok"

\* C10: every value tickIndexToSqrtPriceX64 returns is strictly positive, and
\* of two ticks within the bounds the greater one has the strictly greater
\* value.
C10_StrictlyIncreasing ==
    /\ sqrtPriceX64.status = "ok" => sqrtPriceX64.value # <<>>
    /\ (/\ prevSqrtPriceX64.status = "ok"
        /\ sqrtPriceX64.status = "ok"
        /\ prevTick < tick)
           => BigLt(prevSqrtPriceX64.value, sqrtPriceX64.value)

\* Two neighbouring negative ticks were converted, at the low end where the
\* values are smallest.
C10_Witness ==
    /\ prevTick = MIN_TICK
    /\ tick = MIN_TICK + 1
    /\ prevSqrtPriceX64.status = "ok"
    /\ sqrtPriceX64.status = "ok"
    /\ BigLt(prevSqrtPriceX64.value, sqrtPriceX64.value)

\* C11: converting a tick to a sqrt price and back returns a tick within 1
\* of the original: for every tick t in [-400000, 400000],
\* abs(sqrtPriceX64ToTickIndex(tickIndexToSqrtPriceX64(t)) - t) <= 1.
C11_RoundTripWithinOne ==
    (/\ tickIndex.status = "ok"
     /\ -400000 <= tick
     /\ tick <= 400000)
        => /\ tickIndex.value - tick <= 1
           /\ tick - tickIndex.value <= 1

\* The tick at the low end of the claimed interval was converted and
\* converted back, after the tick below it, which is outside the interval.
C11_Witness ==
    /\ tickIndex.status = "ok"
    /\ tick = -400000
    /\ prevTick = -400001
    /\ tickIndex.value \in (tick - 1)..(tick + 1)

(***************************************************************************)
(* SpecDecision: the monitor checks a position against the pool's tick, the *)
(* pool's tick moves, and the monitor checks again.                         *)
(***************************************************************************)
\* The checks after the first one
MaxChecks == 1

\* The positions monitored: those of the decision scenarios, and one whose
\* upper bound is tick 0 (price 1).
PositionSamples ==
    {[tickLower |-> 100, tickUpper |-> 2000],
     [tickLower |-> -1000, tickUpper |-> 1000],
     [tickLower |-> -10, tickUpper |-> 0]}

\* The thresholds configured: the default 2, one price step (0.01), 0.5, 0
\* and -1
ThresholdSamples ==
    {DecOfInt(2), DecLit(1, -2), DecLit(5, -1), DecZero, DecOfInt(-1)}

\* The ticks the pool is first seen at: below, on, inside and above the
\* bounds of the position p
TicksAround(p) ==
    {p.tickLower - 100, p.tickLower - 50, p.tickLower - 1, p.tickLower,
     p.tickLower + 1,
     (p.tickLower + p.tickUpper) \div 2, p.tickUpper - 1, p.tickUpper,
     p.tickUpper + 1, p.tickUpper + 300}

DecisionInit ==
    /\ position \in PositionSamples
    /\ \E t \in ThresholdSamples :
           config = [DefaultConfig EXCEPT !.rebalanceThresholdPercent = t]
    /\ \E t \in TicksAround(position) :
           pool = [currentTick |-> t, tickSpacing |-> 60]
    /\ decision = NoDecision
    /\ checks = 0
    /\ TickMathIdle
    /\ RebalanceIdle
    /\ LiquidityIdle
    /\ BotIdle
    /\ OuterIdle

\* checkRebalanceNeeded(): the pool and the position are fetched, and
\* either the decision is returned or a fetch threw.
CheckRebalanceNeeded ==
    /\ decision = NoDecision
    /\ \E fetched \in BOOLEAN :
           decision' = IF fetched
                       THEN checkRebalanceNeeded(pool, position, config)
                       ELSE CheckFailed
    /\ UNCHANGED <<pool, position, config, checks>>
    /\ UNCHANGED <<tickMathVars, rebalanceVars, liquidityVars, botVars, outerVars>>

\* The pool's tick moves by one before the next check.
PoolMoves ==
    /\ decision # NoDecision
    /\ checks < MaxChecks
    /\ \E d \in {-1, 1} : pool' = [pool EXCEPT !.currentTick = @ + d]
    /\ decision' = NoDecision
    /\ checks' = checks + 1
    /\ UNCHANGED <<position, config, tickMathVars, rebalanceVars>>
    /\ UNCHANGED <<liquidityVars, botVars, outerVars>>

DecisionNext == CheckRebalanceNeeded \/ PoolMoves

SpecDecision == DecisionInit /\ [][DecisionNext]_vars

\* The pool's tick is outside the position's range, below it and at or above
\* its upper bound.
TickBelowRange == pool.currentTick < position.tickLower

TickAtOrAboveRange == pool.currentTick >= position.tickUpper

TickOutsideRange == TickBelowRange \/ TickAtOrAboveRange

\* C1: a decision has shouldRebalance = true if and only if the current tick
\* is outside the position's range and abs(priceDeviation) >= the threshold
\* (so a deviation equal to the threshold triggers); for the range
\* [100, 2000], current tick 50 and threshold 2 it has shouldRebalance =
\* false.
C1_RebalanceIffOutsideAndAtLeastThreshold ==
    decision.status = "returned" =>
        /\ decision.shouldRebalance <=>
               /\ TickOutsideRange
               /\ DecCmp(DecAbs(decision.priceDeviation),
                         config.rebalanceThresholdPercent) >= 0
        /\ (/\ position = [tickLower |-> 100, tickUpper |-> 2000]
            /\ pool.currentTick = 50
            /\ config.rebalanceThresholdPercent = DecOfInt(2))
               => ~decision.shouldRebalance

\* One tick above an upper bound of 0 the deviation is 0.01 percent, the
\* threshold configured, and the decision is to rebalance.
C1_Witness ==
    /\ decision.status = "returned"
    /\ position.tickUpper = 0
    /\ pool.currentTick = 1
    /\ config.rebalanceThresholdPercent = DecLit(1, -2)
    /\ DecEq(DecAbs(decision.priceDeviation), config.rebalanceThresholdPercent)
    /\ decision.shouldRebalance

\* C2: a decision says the position is in range exactly when
\* tickLower <= currentTick < tickUpper: at tickLower it is in range, at
\* tickUpper it is not.
C2_InRangeLowerInclusiveUpperExclusive ==
    decision.status = "returned" =>
        /\ decision.reason = <<"Position is in range">> <=>
               /\ position.tickLower <= pool.currentTick
               /\ pool.currentTick < position.tickUpper
        /\ pool.currentTick = position.tickLower
               => decision.reason = <<"Position is in range">>
        /\ pool.currentTick = position.tickUpper
               => decision.reason # <<"Position is in range">>

\* The pool's tick moved from inside the range onto tickUpper, and the
\* decision no longer says in range.
C2_Witness ==
    /\ decision.status = "returned"
    /\ checks = 1
    /\ pool.currentTick = position.tickUpper
    /\ decision.reason # <<"Position is in range">>

\* C3: when the current tick is in range the decision has shouldRebalance =
\* false and priceDeviation = 0, whatever the threshold (0 and negative
\* thresholds included).
C3_InRangeNeverRebalances ==
    (decision.status = "returned" /\ ~TickOutsideRange) =>
        /\ ~decision.shouldRebalance
        /\ decision.priceDeviation = DecZero

\* An in-range decision under a negative threshold
C3_Witness ==
    /\ decision.status = "returned"
    /\ ~TickOutsideRange
    /\ config.rebalanceThresholdPercent = DecOfInt(-1)
    /\ ~decision.shouldRebalance
    /\ decision.priceDeviation = DecZero

\* The bound the current tick has left
BoundLeft == IF TickBelowRange THEN position.tickLower ELSE position.tickUpper

\* The deviation of the decision is that of the current tick's price from
\* the price at the bound left.
DeviationIsFromBoundLeft ==
    decision.priceDeviation =
        DeviationFrom(pool.currentTick, BoundLeft)

\* C4 as claimed: out of range, priceDeviation is (price(currentTick) -
\* price(boundary)) / price(boundary) * 100, strictly positive when
\* currentTick is at or above tickUpper and strictly negative when it is
\* below tickLower, and never 0 when currentTick is not the bound left.
C4_AsClaimed ==
    (decision.status = "returned" /\ TickOutsideRange) =>
        /\ DeviationIsFromBoundLeft
        /\ TickAtOrAboveRange => DecCmp(decision.priceDeviation, DecZero) = 1
        /\ TickBelowRange => DecCmp(decision.priceDeviation, DecZero) = -1
        /\ pool.currentTick # BoundLeft => ~DecIsZero(decision.priceDeviation)

\* C4, amended: out of range, priceDeviation is (price(currentTick) -
\* price(boundary)) / price(boundary) * 100 for the bound left; it is
\* strictly positive when currentTick is above tickUpper, 0 when currentTick
\* equals tickUpper, and strictly negative when currentTick is below
\* tickLower; it is never 0 when currentTick is not the bound left.
C4_DeviationSign ==
    (decision.status = "returned" /\ TickOutsideRange) =>
        /\ DeviationIsFromBoundLeft
        /\ pool.currentTick > position.tickUpper
               => DecCmp(decision.priceDeviation, DecZero) = 1
        /\ pool.currentTick = position.tickUpper
               => DecCmp(decision.priceDeviation, DecZero) = 0
        /\ TickBelowRange => DecCmp(decision.priceDeviation, DecZero) = -1
        /\ pool.currentTick # BoundLeft => ~DecIsZero(decision.priceDeviation)

\* A decision for a tick one above tickUpper, with a positive deviation
C4_Witness ==
    /\ decision.status = "returned"
    /\ pool.currentTick = position.tickUpper + 1
    /\ DecCmp(decision.priceDeviation, DecZero) = 1

(***************************************************************************)
(* SpecRange: a rebalance computes the new range for the pool's tick, its  *)
(* tick spacing and the width configured; the pool's tick moves and the    *)
(* next rebalance computes it again.                                       *)
(***************************************************************************)
\* The rebalances after the first one
MaxRebalances == 1

\* The pool's tick at the first rebalance: at the tick bounds and near them,
\* negative, zero and positive, on multiples of the spacings and off them
RangeTickSamples ==
    {MIN_TICK, MIN_TICK + 36, -443400, -130, -120, -7, -1, 0, 1, 59, 60, 120,
     443400, MAX_TICK - 36, MAX_TICK}

\* pool.tickSpacing
SpacingSamples == {1, 2, 10, 60, 200}

\* config.rangeWidthPercent: the default 5, and widths whose half-width is
\* 0 ticks (0.005), 1 tick (0.02), 50 ticks (1) and 4055 ticks (100)
WidthSamples ==
    {DecLit(5, -3), DecLit(2, -2), DecOfInt(1), DecOfInt(5), DecOfInt(100)}

RangeInit ==
    /\ \E t \in RangeTickSamples, sp \in SpacingSamples :
           pool = [currentTick |-> t, tickSpacing |-> sp]
    /\ position = [tickLower |-> -1000, tickUpper |-> 1000]
    /\ \E w \in WidthSamples :
           config = [DefaultConfig EXCEPT !.rangeWidthPercent = w]
    /\ decision = NoDecision
    /\ checks = 0
    /\ TickMathIdle
    /\ RebalanceIdle
    /\ LiquidityIdle
    /\ BotIdle
    /\ OuterIdle

\* rebalance(pool, position), step 4: the new range is calculated and its
\* alignment validated.
CalculateNewRange ==
    /\ newRange = NoRange
    /\ newRange' = NewRange(pool, position, config)
    /\ alignment' = AlignmentCheck(newRange', pool)
    /\ UNCHANGED <<rebalances, monitorVars, tickMathVars, liquidityVars>>
    /\ UNCHANGED <<botVars, outerVars>>

\* The pool's tick has moved, by one tick or by one tick spacing, when the
\* next rebalance begins.
NextRebalance ==
    /\ newRange # NoRange
    /\ rebalances < MaxRebalances
    /\ \E d \in {-pool.tickSpacing, -1, 1, pool.tickSpacing} :
           /\ MIN_TICK <= pool.currentTick + d
           /\ pool.currentTick + d <= MAX_TICK
           /\ pool' = [pool EXCEPT !.currentTick = @ + d]
    /\ newRange' = NoRange
    /\ alignment' = "none"
    /\ rebalances' = rebalances + 1
    /\ UNCHANGED <<position, config, decision, checks, tickMathVars>>
    /\ UNCHANGED <<liquidityVars, botVars, outerVars>>

RangeNext == CalculateNewRange \/ NextRebalance

SpecRange == RangeInit /\ [][RangeNext]_vars

\* C5: both bounds of a range calculateTickRange returns are exact multiples
\* of tickSpacing, for negative ticks too, and the alignment check of the
\* rebalance does not throw.
C5_BoundsAligned ==
    newRange.status = "ok" =>
        /\ newRange.tickLower % pool.tickSpacing = 0
        /\ newRange.tickUpper % pool.tickSpacing = 0
        /\ alignment = "aligned"

\* A range with a negative lower bound for a negative tick off the
\* multiples of tick spacing 60 passed the alignment check.
C5_Witness ==
    /\ newRange.status = "ok"
    /\ pool.tickSpacing = 60
    /\ pool.currentTick = -130
    /\ newRange.tickLower < 0
    /\ alignment = "aligned"

\* C6: a range calculateTickRange returns has tickLower < currentTick <
\* tickUpper, also when currentTick is a multiple of tickSpacing and when
\* alignment alone would leave a bound on currentTick.
C6_CurrentTickStrictlyInside ==
    newRange.status = "ok" =>
        /\ newRange.tickLower < pool.currentTick
        /\ pool.currentTick < newRange.tickUpper

\* With half-width 0 and the current tick 120 a multiple of tick spacing 60,
\* both bounds were moved outward.
C6_Witness ==
    /\ newRange = TickRange(60, 180)
    /\ pool = [currentTick |-> 120, tickSpacing |-> 60]
    /\ config.rangeWidthPercent = DecLit(5, -3)

\* C7: calculateTickRange returns a range with tickLower < tickUpper and
\* both bounds within [MIN_TICK, MAX_TICK], or it fails with
\* InvalidRangeError.
C7_ValidRangeOrError ==
    newRange # NoRange =>
        \/ /\ newRange.status = "ok"
           /\ newRange.tickLower < newRange.tickUpper
           /\ MIN_TICK <= newRange.tickLower
           /\ newRange.tickUpper <= MAX_TICK
        \/ newRange = InvalidRangeError

\* At MAX_TICK no range fits within the bounds: InvalidRangeError.
C7_Witness ==
    /\ pool.currentTick = MAX_TICK
    /\ newRange = InvalidRangeError

(***************************************************************************)
(* SpecLiquidity: a caller invokes the single-sided formulas on a range,   *)
(* opens a position from token amounts and reads its amounts back; a       *)
(* RebalanceService, the one the bot runs or the atomic one, withdraws the *)
(* position's liquidity; then the same happens on another range around the *)
(* same pool price.                                                        *)
(***************************************************************************)
\* The ranges after the first one
MaxRanges == 1

\* Pool ticks and ranges: the price inside the range (the unit tests'
\* ranges, a range off centre, ranges at high and low prices), below it
\* and at its lower bound, above it and at its upper bound, and ranges
\* without width.
TickSamples3 ==
    {[current |-> c, lower |-> l, upper |-> u] : <<c, l, u>> \in
        {<<0, -1000, 1000>>, <<0, -500, 500>>, <<0, -2000, 2000>>,
         <<-7, -60, 120>>, <<400100, 399000, 401000>>,
         <<-300030, -300060, -300000>>,
         <<0, 1000, 2000>>, <<1000, 1000, 2000>>,
         <<3000, 1000, 2000>>, <<2000, 1000, 2000>>,
         <<0, 1000, 1000>>, <<1000, 1000, 1000>>}}

\* Token amounts: the unit tests' 1,000,000 of each, token B scarce, large
\* amounts with token A scarce, and one unit of each.
AmountSamples ==
    {[amountA |-> BigOf(1000000), amountB |-> BigOf(1000000)],
     [amountA |-> BigOf(1000000), amountB |-> BigOf(200000)],
     [amountA |-> <<7, 0, 0, 1>>, amountB |-> <<0, 0, 0, 0, 100>>],
     [amountA |-> BigOf(1), amountB |-> BigOf(1)]}

LiquidityInit ==
    /\ ticks \in TickSamples3
    /\ prices = SqrtPricesAt(ticks)
    /\ amountIn \in AmountSamples
    /\ formulas = NoResult
    /\ liquidity = NoResult
    /\ amountsBack = NoResult
    /\ expected = NoResult
    /\ maxSlippagePercent = DefaultSlippage
    /\ minAmounts = NoResult
    /\ removeCall = NoResult
    /\ prevTicks = ticks
    /\ prevLiquidity = NoResult
    /\ ranges = 0
    /\ TickMathIdle
    /\ MonitorIdle
    /\ RebalanceIdle
    /\ BotIdle
    /\ OuterIdle

\* The four single-sided formulas called with the prices p and q, the
\* liquidity l and the amounts a and b
SingleSided(p, q, l, a, b) ==
    [amountA |-> getAmountAFromLiquidity(p, q, l),
     amountB |-> getAmountBFromLiquidity(p, q, l),
     liquidityA |-> getLiquidityFromAmountA(p, q, a),
     liquidityB |-> getLiquidityFromAmountB(p, q, b)]

\* The caller invokes each single-sided formula on the bounds of the range,
\* in ascending order and swapped, with amountA also as the liquidity.
CallFormulas ==
    /\ formulas = NoResult
    /\ formulas' =
           Returned([direct |-> SingleSided(prices.lower, prices.upper,
                                            amountIn.amountA, amountIn.amountA,
                                            amountIn.amountB),
                     swapped |-> SingleSided(prices.upper, prices.lower,
                                             amountIn.amountA, amountIn.amountA,
                                             amountIn.amountB)])
    /\ UNCHANGED <<ticks, prices, amountIn, liquidity, amountsBack, expected,
                   maxSlippagePercent, minAmounts, removeCall, prevTicks,
                   prevLiquidity, ranges>>
    /\ UNCHANGED <<tickMathVars, monitorVars, rebalanceVars, botVars, outerVars>>

\* Position.fromAmounts: getLiquidityFromAmounts at the pool's price
GetLiquidityFromAmounts ==
    /\ formulas # NoResult
    /\ liquidity = NoResult
    /\ liquidity' = getLiquidityFromAmounts(prices.current, prices.lower,
                                            prices.upper, amountIn.amountA,
                                            amountIn.amountB)
    /\ UNCHANGED <<ticks, prices, amountIn, formulas, amountsBack, expected,
                   maxSlippagePercent, minAmounts, removeCall, prevTicks,
                   prevLiquidity, ranges>>
    /\ UNCHANGED <<tickMathVars, monitorVars, rebalanceVars, botVars, outerVars>>

\* getAmountsFromLiquidity on the liquidity obtained
GetAmountsFromLiquidity ==
    /\ liquidity.status = "ok"
    /\ amountsBack = NoResult
    /\ amountsBack' = getAmountsFromLiquidity(prices.current, prices.lower,
                                              prices.upper, liquidity.value)
    /\ UNCHANGED <<ticks, prices, amountIn, formulas, liquidity, expected,
                   maxSlippagePercent, minAmounts, removeCall, prevTicks,
                   prevLiquidity, ranges>>
    /\ UNCHANGED <<tickMathVars, monitorVars, rebalanceVars, botVars, outerVars>>

\* config.maxSlippagePercent: 0, the default 1, and 30
SlippageSamples == {[n |-> 0, d |-> 1], DefaultSlippage, [n |-> 30, d |-> 1]}

\* rebalance(pool, position) of the atomic service, for the position of that
\* liquidity on the range: the expected amounts, the minimum amounts, and
\* the remove_liquidity call of the transaction it builds.  (Its new range
\* is SpecRange's.)
AtomicRebalance ==
    /\ amountsBack # NoResult
    /\ expected = NoResult
    /\ removeCall = NoResult
    /\ expected' =
           calculateExpectedAmounts(
               [currentSqrtPrice |-> prices.current],
               [tickLower |-> ticks.lower, tickUpper |-> ticks.upper,
                liquidity |-> liquidity.value])
    /\ maxSlippagePercent' \in SlippageSamples
    /\ minAmounts' = MinAmounts(expected', slippageFactor(maxSlippagePercent'))
    /\ removeCall' =
           RemoveLiquidityWithMinimums([liquidity |-> liquidity.value],
                                       minAmounts')
    /\ UNCHANGED <<ticks, prices, amountIn, formulas, liquidity, amountsBack,
                   prevTicks, prevLiquidity, ranges>>
    /\ UNCHANGED <<tickMathVars, monitorVars, rebalanceVars, botVars, outerVars>>

\* rebalance(pool, position) of the service the bot runs, step 1:
\* removeLiquidity(position), under the default configuration
RemoveLiquidity ==
    /\ amountsBack # NoResult
    /\ expected = NoResult
    /\ removeCall = NoResult
    /\ removeCall' = RemoveLiquidityCall([liquidity |-> liquidity.value])
    /\ UNCHANGED <<ticks, prices, amountIn, formulas, liquidity, amountsBack,
                   expected, maxSlippagePercent, minAmounts, prevTicks,
                   prevLiquidity, ranges>>
    /\ UNCHANGED <<tickMathVars, monitorVars, rebalanceVars, botVars, outerVars>>

\* The caller goes on to another range around the same pool price, with the
\* same amounts.
NextRange ==
    /\ \/ removeCall # NoResult
       \/ liquidity.status = "threw"
    /\ ranges < MaxRanges
    /\ \E t \in TickSamples3 :
           /\ t.current = ticks.current
           /\ t # ticks
           /\ ticks' = t
           /\ prices' = SqrtPricesAt(t)
    /\ prevTicks' = ticks
    /\ prevLiquidity' = liquidity
    /\ formulas' = NoResult
    /\ liquidity' = NoResult
    /\ amountsBack' = NoResult
    /\ expected' = NoResult
    /\ maxSlippagePercent' = DefaultSlippage
    /\ minAmounts' = NoResult
    /\ removeCall' = NoResult
    /\ ranges' = ranges + 1
    /\ UNCHANGED amountIn
    /\ UNCHANGED <<tickMathVars, monitorVars, rebalanceVars, botVars, outerVars>>

LiquidityNext ==
    \/ CallFormulas
    \/ GetLiquidityFromAmounts
    \/ GetAmountsFromLiquidity
    \/ AtomicRebalance
    \/ RemoveLiquidity
    \/ NextRange

SpecLiquidity == LiquidityInit /\ [][LiquidityNext]_vars

\* v = floor(l * (q - p) * 2^64 / (p * q)) for prices p < q, stated without
\* a division
IsAmountA(v, p, q, l) ==
    /\ BigLe(BigMul(v, BigMul(p, q)), BigMul(BigMul(l, BigSub(q, p)), Q64))
    /\ BigLt(BigMul(BigMul(l, BigSub(q, p)), Q64),
             BigMul(BigAdd(v, BigOf(1)), BigMul(p, q)))

\* v = floor(l * (q - p) / 2^64) for prices p < q, stated without a division
IsAmountB(v, p, q, l) ==
    /\ BigLe(BigMul(v, Q64), BigMul(l, BigSub(q, p)))
    /\ BigLt(BigMul(l, BigSub(q, p)), BigMul(BigAdd(v, BigOf(1)), Q64))

\* C12: getAmountsFromLiquidity selects one of three regimes by comparing
\* the current sqrt price with the range: current <= lower gives amountB = 0
\* and amountA from the full range, current >= upper gives amountA = 0 and
\* amountB from the full range, and lower < current < upper gives amountA
\* from [current, upper] and amountB from [lower, current]; the expected
\* amounts of the position being closed are selected the same way, so they
\* are the same amounts.
C12_ThreeRegimes ==
    /\ amountsBack.status = "ok" =>
           /\ BigLe(prices.current, prices.lower) =>
                  /\ amountsBack.value.amountB = <<>>
                  /\ IsAmountA(amountsBack.value.amountA, prices.lower,
                               prices.upper, liquidity.value)
           /\ BigLe(prices.upper, prices.current) =>
                  /\ amountsBack.value.amountA = <<>>
                  /\ IsAmountB(amountsBack.value.amountB, prices.lower,
                               prices.upper, liquidity.value)
           /\ (/\ BigLt(prices.lower, prices.current)
               /\ BigLt(prices.current, prices.upper)) =>
                  /\ IsAmountA(amountsBack.value.amountA, prices.current,
                               prices.upper, liquidity.value)
                  /\ IsAmountB(amountsBack.value.amountB, prices.lower,
                               prices.current, liquidity.value)
    /\ expected # NoResult =>
           /\ expected.status = amountsBack.status
           /\ expected.status = "ok" =>
                  /\ expected.value.amountA = amountsBack.value.amountA
                  /\ expected.value.amountB = amountsBack.value.amountB

\* The expected amounts were computed for a position on [1000, 2000] with
\* the pool at tick 3000, above the range: token B alone.
C12_Witness ==
    /\ ticks = [current |-> 3000, lower |-> 1000, upper |-> 2000]
    /\ expected.status = "ok"
    /\ expected.value.amountA = <<>>
    /\ expected.value.amountB # <<>>
    /\ amountsBack = expected

\* v <= amountA * p * q / ((q - p) * 2^64) for prices p < q
AtMostLiquidityA(v, p, q, a) ==
    BigLe(BigMul(BigMul(v, BigSub(q, p)), Q64), BigMul(a, BigMul(p, q)))

\* v = floor(amountA * p * q / ((q - p) * 2^64)) for prices p < q
IsLiquidityA(v, p, q, a) ==
    /\ AtMostLiquidityA(v, p, q, a)
    /\ ~AtMostLiquidityA(BigAdd(v, BigOf(1)), p, q, a)

\* v <= amountB * 2^64 / (q - p) for prices p < q
AtMostLiquidityB(v, p, q, b) ==
    BigLe(BigMul(v, BigSub(q, p)), BigMul(b, Q64))

\* v = floor(amountB * 2^64 / (q - p)) for prices p < q
IsLiquidityB(v, p, q, b) ==
    /\ AtMostLiquidityB(v, p, q, b)
    /\ ~AtMostLiquidityB(BigAdd(v, BigOf(1)), p, q, b)

\* C13: getLiquidityFromAmounts returns the minimum of the liquidity that
\* amountA provides on [current, upper] and the liquidity that amountB
\* provides on [lower, current] when lower < current < upper; the liquidity
\* of amountA alone on the range when current <= lower, whatever amountB is;
\* and the liquidity of amountB alone when current >= upper, whatever
\* amountA is.
C13_MinimumOrSingleSided ==
    liquidity.status = "ok" =>
        /\ BigLe(prices.current, prices.lower) =>
               /\ liquidity = formulas.value.direct.liquidityA
               /\ IsLiquidityA(liquidity.value, prices.lower, prices.upper,
                               amountIn.amountA)
        /\ BigLe(prices.upper, prices.current) =>
               /\ liquidity = formulas.value.direct.liquidityB
               /\ IsLiquidityB(liquidity.value, prices.lower, prices.upper,
                               amountIn.amountB)
        /\ (/\ BigLt(prices.lower, prices.current)
            /\ BigLt(prices.current, prices.upper)) =>
               /\ AtMostLiquidityA(liquidity.value, prices.current,
                                   prices.upper, amountIn.amountA)
               /\ AtMostLiquidityB(liquidity.value, prices.lower,
                                   prices.current, amountIn.amountB)
               /\ \/ IsLiquidityA(liquidity.value, prices.current,
                                  prices.upper, amountIn.amountA)
                  \/ IsLiquidityB(liquidity.value, prices.lower,
                                  prices.current, amountIn.amountB)

\* Inside the range with token B scarce, the liquidity returned is the one
\* amountB provides, less than the one amountA provides.
C13_Witness ==
    /\ ticks = UnitTestTicks
    /\ amountIn.amountB = BigOf(200000)
    /\ liquidity.status = "ok"
    /\ IsLiquidityB(liquidity.value, prices.lower, prices.current,
                    amountIn.amountB)
    /\ ~IsLiquidityA(liquidity.value, prices.current, prices.upper,
                     amountIn.amountA)

\* C14: amounts -> liquidity -> amounts never grows either amount.  With the
\* current price inside the range, getAmountsFromLiquidity on the liquidity
\* of getLiquidityFromAmounts(amountA, amountB) returns amounts each at
\* most the original one; and for amountA = amountB = 1,000,000 on
\* [-1000, 1000] at tick 0 each differs from the original by less than 1%
\* (100 times the difference is less than the original).
C14_RoundTripNeverGrows ==
    (/\ amountsBack.status = "ok"
     /\ BigLt(prices.lower, prices.current)
     /\ BigLt(prices.current, prices.upper))
        => /\ BigLe(amountsBack.value.amountA, amountIn.amountA)
           /\ BigLe(amountsBack.value.amountB, amountIn.amountB)
           /\ (/\ ticks = UnitTestTicks
               /\ amountIn.amountA = BigOf(1000000)
               /\ amountIn.amountB = BigOf(1000000))
                  => /\ BigLt(BigMulSmall(BigSub(amountIn.amountA,
                                                amountsBack.value.amountA),
                                         100),
                              amountIn.amountA)
                     /\ BigLt(BigMulSmall(BigSub(amountIn.amountB,
                                                amountsBack.value.amountB),
                                         100),
                              amountIn.amountB)

\* The unit test's round trip was made, and it lost something of each
\* amount.
C14_Witness ==
    /\ ticks = UnitTestTicks
    /\ amountIn.amountA = BigOf(1000000)
    /\ amountIn.amountB = BigOf(1000000)
    /\ amountsBack.status = "ok"
    /\ BigLt(amountsBack.value.amountA, amountIn.amountA)
    /\ BigLt(amountsBack.value.amountB, amountIn.amountB)
    /\ amountsBack.value.amountA # <<>>

\* C15: the liquidity-to-amount formulas round down.  For prices
\* sqrtA < sqrtB, getAmountBFromLiquidity(sqrtA, sqrtB, L) is the greatest
\* integer at most L * (sqrtB - sqrtA) / 2^64 and
\* getAmountAFromLiquidity(sqrtA, sqrtB, L) the greatest integer at most
\* L * (sqrtB - sqrtA) * 2^64 / (sqrtA * sqrtB): a computed amount never
\* exceeds the exact value, and 1 more would.
C15_AmountsRoundDown ==
    (formulas # NoResult /\ BigLt(prices.lower, prices.upper))
        => /\ formulas.value.direct.amountA.status = "ok"
           /\ formulas.value.direct.amountB.status = "ok"
           /\ IsAmountA(formulas.value.direct.amountA.value, prices.lower,
                        prices.upper, amountIn.amountA)
           /\ IsAmountB(formulas.value.direct.amountB.value, prices.lower,
                        prices.upper, amountIn.amountA)

\* The formulas were called on [1000, 2000] with the liquidity
\* 1,000,000,000,007: the two amounts differ, and neither is 0.
C15_Witness ==
    /\ ticks.lower = 1000
    /\ ticks.upper = 2000
    /\ amountIn.amountA = <<7, 0, 0, 1>>
    /\ formulas # NoResult
    /\ formulas.value.direct.amountA.value # <<>>
    /\ formulas.value.direct.amountB.value # <<>>
    /\ BigLt(formulas.value.direct.amountA.value,
             formulas.value.direct.amountB.value)

\* C16: the single-sided formulas are symmetric in their two price
\* arguments: getAmountAFromLiquidity(p, q, L) equals
\* getAmountAFromLiquidity(q, p, L), and likewise getAmountBFromLiquidity,
\* getLiquidityFromAmountA and getLiquidityFromAmountB; every value returned
\* is a natural number, never negative.
C16_SymmetricInPrices ==
    formulas # NoResult =>
        \A f \in {"amountA", "amountB", "liquidityA", "liquidityB"} :
            /\ formulas.value.swapped[f].status
                   = formulas.value.direct[f].status
            /\ formulas.value.swapped[f].value = formulas.value.direct[f].value
            /\ formulas.value.swapped[f].status = "ok" =>
                   formulas.value.swapped[f].value \in BN

\* The formulas were called with the prices of ticks 2000 and 1000, in this
\* order, and returned amounts that are not 0.
C16_Witness ==
    /\ ticks.lower = 1000
    /\ ticks.upper = 2000
    /\ formulas # NoResult
    /\ formulas.value.swapped.amountA.status = "ok"
    /\ formulas.value.swapped.amountB.status = "ok"
    /\ formulas.value.swapped.amountA.value # <<>>
    /\ formulas.value.swapped.amountB.value # <<>>
    /\ formulas.value.swapped.liquidityB.value # <<>>

\* C17: a liquidity / amount formula invoked on a range without width
\* (sqrtPriceLower = sqrtPriceUpper) throws DivisionDomainError: none of the
\* four single-sided formulas returns a value, in either order of the
\* prices, and neither does getLiquidityFromAmounts.
C17_ZeroWidthThrows ==
    prices # <<>> /\ prices.lower = prices.upper =>
        /\ formulas # NoResult =>
               \A f \in {"amountA", "amountB", "liquidityA", "liquidityB"} :
                   /\ formulas.value.direct[f] = DivisionDomainError
                   /\ formulas.value.swapped[f] = DivisionDomainError
        /\ liquidity # NoResult => liquidity = DivisionDomainError
        /\ amountsBack.status # "ok"
        /\ expected.status # "ok"

\* The formulas and getLiquidityFromAmounts were called on the range
\* [1000, 1000] with the pool at tick 0, and threw.
C17_Witness ==
    /\ ticks = [current |-> 0, lower |-> 1000, upper |-> 1000]
    /\ formulas.status = "ok"
    /\ formulas.value.direct.liquidityB.status = "threw"
    /\ liquidity.status = "threw"

\* The pool's tick is inside the range r of ticks.
TickInside(r) == r.lower < r.current /\ r.current < r.upper

\* C18: for fixed token amounts and a current price inside both ranges, a
\* wider range yields more liquidity: the liquidity for a range that
\* contains another one, as [-2000, 2000] contains [-500, 500], is strictly
\* greater than the liquidity for the range contained.
C18_WiderRangeMoreLiquidity ==
    (/\ prevLiquidity.status = "ok"
     /\ liquidity.status = "ok"
     /\ TickInside(prevTicks)
     /\ TickInside(ticks)
     /\ ticks.lower < prevTicks.lower
     /\ prevTicks.upper < ticks.upper)
        => BigLt(prevLiquidity.value, liquidity.value)

\* Positions were opened from 1,000,000 of each token on [-500, 500] and
\* then on [-2000, 2000], with the pool at tick 0.
C18_Witness ==
    /\ prevTicks = [current |-> 0, lower |-> -500, upper |-> 500]
    /\ ticks = [current |-> 0, lower |-> -2000, upper |-> 2000]
    /\ amountIn.amountA = BigOf(1000000)
    /\ amountIn.amountB = BigOf(1000000)
    /\ prevLiquidity.status = "ok"
    /\ liquidity.status = "ok"

\* expectedAmount * (100 - maxSlippagePercent) / 100 >= 1
ScaledAtLeastOne(expectedAmount, s) ==
    BigLe(BigOf(100 * s.d), BigMul(expectedAmount, BigOf(100 * s.d - s.n)))

\* min = floor(expectedAmount * (100 - maxSlippagePercent) / 100)
IsScaledFloor(min, expectedAmount, s) ==
    /\ BigLe(BigMul(min, BigOf(100 * s.d)),
             BigMul(expectedAmount, BigOf(100 * s.d - s.n)))
    /\ BigLt(BigMul(expectedAmount, BigOf(100 * s.d - s.n)),
             BigMul(BigAdd(min, <<1>>), BigOf(100 * s.d)))

\* The amounts the position being withdrawn is expected to yield: section
\* 4.2 with its own bounds and the pool's current price.
PositionExpectedAmounts ==
    ExpectedAmountsAt(prices.current, Returned(prices.lower),
                      Returned(prices.upper), liquidity.value)

\* C19: the remove_liquidity call of every rebalance carries minimums
\* derived from the expected amounts of the position it closes: the minimum
\* of a token is not zero whenever the expected amount of that token,
\* scaled by the slippage factor (100 - maxSlippagePercent) / 100, is at
\* least 1.
C19_WithdrawalCarriesMinimums ==
    (removeCall # NoResult /\ removeCall.status = "ok")
        => /\ ScaledAtLeastOne(PositionExpectedAmounts.value.amountA,
                               maxSlippagePercent)
                  => removeCall.value.minAmountA # <<>>
           /\ ScaledAtLeastOne(PositionExpectedAmounts.value.amountB,
                               maxSlippagePercent)
                  => removeCall.value.minAmountB # <<>>

\* The service the bot runs has withdrawn, with a minimum of zero, a
\* position expected to yield a million units of token A at 1% slippage.
C19_Witness ==
    /\ removeCall # NoResult
    /\ removeCall.status = "ok"
    /\ expected = NoResult
    /\ removeCall.value.minAmountA = <<>>
    /\ amountsBack.status = "ok"
    /\ BigLe(<<9999, 99>>, amountsBack.value.amountA)

\* C20: the minimums of the withdrawal are never optimistic: for every
\* maxSlippagePercent in [0, 100], minAmountA is
\* floor(expectedAmountA * (100 - maxSlippagePercent) / 100), it is at most
\* expectedAmountA, and likewise for B; both minimums are non-negative (as
\* every BN of the model is).
C20_MinimumsNeverOptimistic ==
    (minAmounts # NoResult /\ minAmounts.status = "ok")
        => /\ IsScaledFloor(minAmounts.value.minAmountA,
                            expected.value.amountA, maxSlippagePercent)
           /\ IsScaledFloor(minAmounts.value.minAmountB,
                            expected.value.amountB, maxSlippagePercent)
           /\ BigLe(minAmounts.value.minAmountA, expected.value.amountA)
           /\ BigLe(minAmounts.value.minAmountB, expected.value.amountB)

\* The atomic service has computed the minimums of a position expected to
\* yield both tokens, with a slippage of 30%.
C20_Witness ==
    /\ minAmounts # NoResult
    /\ minAmounts.status = "ok"
    /\ maxSlippagePercent.n = 30
    /\ expected.value.amountA # <<>>
    /\ expected.value.amountB # <<>>


(***************************************************************************)
(* SpecBot: the bot's check cycle.  checkAndRebalance asks the monitor for *)
(* a decision, fetches the state and calls rebalance of the service        *)
(* deployed: the step-by-step service, whose transactions go through       *)
(* executeTransaction, or the atomic service, whose one transaction goes   *)
(* through executeTransactionWithoutSimulation.                            *)
(***************************************************************************)
\* The check cycles after the first one
MaxCycles == 1

\* The liquidity of the positions monitored
BotLiquidity == BigOf(1000000000)

\* The snapshots the bot sees.  The pool's sqrt price is that of priceTick
\* plus priceAbove.
\*  - a position in range;
\*  - a pool 1 % below the range, less than the threshold;
\*  - a pool above the range, and one below it;
\*  - a pool of tick spacing 2 at tick 200011, a position below it and a
\*    range width of 0.005 %, so that the new range is [200010, 200012]; the
\*    pool's sqrt price is 7718 below that of tick 200012, which is one above
\*    the value tickToSqrtPrice has for it.
Snapshots ==
    {[currentTick |-> 0, tickSpacing |-> 60, priceTick |-> 0,
      priceAbove |-> 0, tickLower |-> -1000, tickUpper |-> 1000,
      rangeWidthPercent |-> DecOfInt(5)],
     [currentTick |-> 0, tickSpacing |-> 60, priceTick |-> 0,
      priceAbove |-> 0, tickLower |-> 100, tickUpper |-> 2000,
      rangeWidthPercent |-> DecOfInt(5)],
     [currentTick |-> 3000, tickSpacing |-> 60, priceTick |-> 3000,
      priceAbove |-> 0, tickLower |-> 1000, tickUpper |-> 2000,
      rangeWidthPercent |-> DecOfInt(5)],
     [currentTick |-> 0, tickSpacing |-> 60, priceTick |-> 0,
      priceAbove |-> 0, tickLower |-> 1000, tickUpper |-> 2000,
      rangeWidthPercent |-> DecOfInt(5)],
     [currentTick |-> 200011, tickSpacing |-> 2, priceTick |-> 200012,
      priceAbove |-> 1, tickLower |-> 199000, tickUpper |-> 199500,
      rangeWidthPercent |-> DecLit(5, -3)]}

\* MIN_RETRY_DELAY_MS and MAX_RETRY_DELAY_MS: the defaults, and a maximum
\* that the third wait reaches
RetryDelaySamples ==
    {[minRetryDelayMs |-> 1000, maxRetryDelayMs |-> 30000],
     [minRetryDelayMs |-> 1000, maxRetryDelayMs |-> 5000]}

\* The outcomes of getGasPrice(): a price below, at and above
\* config.maxGasPrice, and a failed request
GasPriceOutcomes(c) ==
    {Returned(c.maxGasPrice - 1), Returned(c.maxGasPrice),
     Returned(c.maxGasPrice + 1), Threw(<<"Failed to get gas price">>)}

\* Nothing of a check cycle has happened.
\* The SuiClientService a RebalanceService can run with: the step-by-step
\* service calls executeTransaction, which both files have; the atomic one
\* calls executeTransactionWithoutSimulation, which only part_001 has.
ClientsOf(s) ==
    IF s = "atomic" THEN {"part_001"} ELSE {"suiClient.ts", "part_001"}

CycleStart ==
    [pc |-> "check", phase |-> "none", stateFetched |-> FALSE,
     gasPrice |-> NoResult, started |-> <<>>, txs |-> <<>>, chain |-> <<>>,
     attempt |-> 0, delays |-> <<>>, lastError |-> <<>>,
     outcome |-> NoResult]

BotInit ==
    /\ service \in {"steps", "atomic"}
    /\ client \in ClientsOf(service)
    /\ \E s \in Snapshots :
           /\ pool = [currentTick |-> s.currentTick,
                      tickSpacing |-> s.tickSpacing,
                      currentSqrtPrice |->
                          BigAdd(TickToX64(s.priceTick), BigOf(s.priceAbove))]
           /\ position = [tickLower |-> s.tickLower,
                          tickUpper |-> s.tickUpper,
                          liquidity |-> BotLiquidity]
           /\ \E r \in RetryDelaySamples :
                  config = [DefaultConfig EXCEPT
                                !.rangeWidthPercent = s.rangeWidthPercent,
                                !.minRetryDelayMs = r.minRetryDelayMs,
                                !.maxRetryDelayMs = r.maxRetryDelayMs]
    /\ decision = NoDecision
    /\ checks = 0
    /\ cycles = 0
    /\ pc = CycleStart.pc
    /\ phase = CycleStart.phase
    /\ stateFetched = CycleStart.stateFetched
    /\ gasPrice = CycleStart.gasPrice
    /\ started = CycleStart.started
    /\ txs = CycleStart.txs
    /\ chain = CycleStart.chain
    /\ attempt = CycleStart.attempt
    /\ delays = CycleStart.delays
    /\ lastError = CycleStart.lastError
    /\ outcome = CycleStart.outcome
    /\ TickMathIdle
    /\ RebalanceIdle
    /\ LiquidityIdle
    /\ OuterIdle

\* What a cycle leaves unchanged: the deployment and the snapshots
BotFixed ==
    UNCHANGED <<service, client, pool, position, config, checks,
                tickMathVars, ticks,
                prices, amountIn, formulas, liquidity, amountsBack,
                maxSlippagePercent, removeCall, prevTicks, prevLiquidity,
                ranges, outerVars>>

\* As AfterDecision, but going on whatever the decision returned is.
AfterDecisionAlways(d) == IF d.status = "returned" THEN "state" ELSE "done"

\* if (!decision.shouldRebalance) return; an error of checkRebalanceNeeded
\* is caught and logged.
AfterDecision(d) ==
    IF d.status = "returned" /\ d.shouldRebalance THEN "state" ELSE "done"

\* checkAndRebalance(): await checkRebalanceNeeded(); the cycle ends when it
\* threw and when shouldRebalance is false.
CheckAndRebalance ==
    /\ pc = "check"
    /\ \E ok \in BOOLEAN :
           decision' = IF ok THEN checkRebalanceNeeded(pool, position, config)
                       ELSE CheckFailed
    /\ pc' = AfterDecision(decision')
    /\ UNCHANGED <<phase, cycles, stateFetched, gasPrice, started, txs, chain,
                   attempt, delays, lastError, outcome>>
    /\ UNCHANGED <<rebalanceVars, expected, minAmounts>>
    /\ BotFixed

\* const {pool, position} = await this.positionMonitor.getCurrentState()
GetCurrentState ==
    /\ pc = "state"
    /\ stateFetched' = TRUE
    /\ \E ok \in BOOLEAN : pc' = IF ok THEN "gas" ELSE "done"
    /\ UNCHANGED <<phase, cycles, gasPrice, started, txs, chain, attempt,
                   delays, lastError, outcome>>
    /\ UNCHANGED <<decision, rebalanceVars, expected, minAmounts>>
    /\ BotFixed

\* rebalance(pool, position) of either service begins:
\* await this.suiClient.checkGasPrice()
CheckGasPrice ==
    /\ pc = "gas"
    /\ rebalances' = rebalances + 1
    /\ gasPrice' \in GasPriceOutcomes(config)
    /\ \E checked \in {checkGasPrice(gasPrice', config)} :
           IF checked.status = "threw"
           THEN pc' = "done" /\ outcome' = checked
           ELSE /\ pc' = IF service = "steps" THEN "removeLiquidity"
                         ELSE "build"
                /\ UNCHANGED outcome
    /\ UNCHANGED <<phase, cycles, stateFetched, started, txs, chain, attempt,
                   delays, lastError>>
    /\ UNCHANGED <<decision, newRange, alignment, expected, minAmounts>>
    /\ BotFixed

\* A step of the step-by-step service that executes a transaction begins:
\* the transaction is built and handed to executeTransaction.
BeginStep(tx) ==
    /\ service = "steps"
    /\ phase = "none"
    /\ started' = Append(started, pc)
    /\ txs' = Append(txs, tx)
    /\ phase' = "simulate"
    /\ UNCHANGED <<pc, cycles, stateFetched, gasPrice, chain, attempt, delays,
                   lastError, outcome>>
    /\ UNCHANGED <<decision, rebalanceVars, expected, minAmounts>>
    /\ BotFixed

\* Step 1: await this.removeLiquidity(position)
StepRemoveLiquidity ==
    /\ pc = "removeLiquidity"
    /\ BeginStep(RemoveLiquidityTx(position))

\* Step 2: await this.collectFees(position)
StepCollectFees ==
    /\ pc = "collectFees"
    /\ BeginStep(CollectFeesTx)

\* Step 5: await this.addLiquidity(pool, newRange)
StepAddLiquidity ==
    /\ pc = "addLiquidity"
    /\ BeginStep(AddLiquidityTx(newRange))

\* A dry run or a submission of the transaction built last
ChainEvent(op, status) == [op |-> op, tx |-> Len(txs), status |-> status]

\* executeTransaction after await this.simulateTransaction(tx) has returned:
\* suiClient.ts goes on to signAndExecuteTransaction; part_001 throws.
AfterSimulation(c) ==
    IF c = "part_001"
    THEN Threw(<<"Cannot execute after simulation">>)
    ELSE NoResult

\* executeTransaction: await this.simulateTransaction(tx).  It throws when
\* the dry run fails or its status is not 'success'; rebalance logs the
\* error and throws it again.
SimulateTransaction ==
    /\ phase = "simulate"
    /\ \E status \in {"success", "failure"} :
           /\ chain' = Append(chain, ChainEvent("dryRun", status))
           /\ IF status = "success" /\ AfterSimulation(client) = NoResult
              THEN phase' = "submit" /\ UNCHANGED <<pc, outcome>>
              ELSE /\ phase' = "none"
                   /\ pc' = "done"
                   /\ outcome' =
                          IF status = "success" THEN AfterSimulation(client)
                          ELSE Threw(<<"Transaction simulation failed">>)
    /\ UNCHANGED <<cycles, stateFetched, gasPrice, started, txs, attempt,
                   delays, lastError>>
    /\ UNCHANGED <<decision, rebalanceVars, expected, minAmounts>>
    /\ BotFixed

\* As StepAfter, but going from step 1 to step 3.
StepAfterSkippingFees(step) ==
    CASE step = "removeLiquidity" -> "balanceTokens"
      [] step = "collectFees" -> "balanceTokens"
      [] step = "balanceTokens" -> "calculateTickRange"
      [] step = "calculateTickRange" -> "addLiquidity"
      [] step = "addLiquidity" -> "done"

\* The step after a step of the step-by-step service
StepAfter(step) ==
    CASE step = "removeLiquidity" -> "collectFees"
      [] step = "collectFees" -> "balanceTokens"
      [] step = "balanceTokens" -> "calculateTickRange"
      [] step = "calculateTickRange" -> "addLiquidity"
      [] step = "addLiquidity" -> "done"

\* executeTransaction: signAndExecuteTransaction.  It throws when the
\* request fails or the status is not 'success'; otherwise the step returns
\* and rebalance goes on, or returns after step 5.
SignAndExecute ==
    /\ phase = "submit"
    /\ \E status \in {"success", "failure"} :
           /\ chain' = Append(chain, ChainEvent("submit", status))
           /\ pc' = IF status = "success" THEN StepAfter(pc) ELSE "done"
           /\ outcome' = IF status = "failure"
                         THEN Threw(<<"Transaction execution failed">>)
                         ELSE IF pc' = "done" THEN Returned(<<>>)
                         ELSE outcome
    /\ phase' = "none"
    /\ UNCHANGED <<cycles, stateFetched, gasPrice, started, txs, attempt,
                   delays, lastError>>
    /\ UNCHANGED <<decision, rebalanceVars, expected, minAmounts>>
    /\ BotFixed

\* Step 3: await this.balanceTokens(pool), which logs only
StepBalanceTokens ==
    /\ service = "steps"
    /\ pc = "balanceTokens"
    /\ started' = Append(started, pc)
    /\ pc' = StepAfter(pc)
    /\ UNCHANGED <<phase, cycles, stateFetched, gasPrice, txs, chain, attempt,
                   delays, lastError, outcome>>
    /\ UNCHANGED <<decision, rebalanceVars, expected, minAmounts>>
    /\ BotFixed

\* Step 4: const newRange = calculateTickRange(...)
StepCalculateTickRange ==
    /\ service = "steps"
    /\ pc = "calculateTickRange"
    /\ started' = Append(started, pc)
    /\ newRange' = NewRange(pool, position, config)
    /\ IF newRange'.status = "ok"
       THEN pc' = StepAfter(pc) /\ UNCHANGED outcome
       ELSE pc' = "done" /\ outcome' = Threw(<<newRange'.error>>)
    /\ UNCHANGED <<phase, cycles, stateFetched, gasPrice, txs, chain, attempt,
                   delays, lastError>>
    /\ UNCHANGED <<decision, alignment, rebalances, expected, minAmounts>>
    /\ BotFixed

\* rebalance of the atomic service after the gas price check: the new range
\* and its validation, the expected and the minimum amounts,
\* buildRebalancePTB, and the call of executeTransactionWithoutSimulation.
BuildRebalance ==
    /\ service = "atomic"
    /\ pc = "build"
    /\ newRange' = NewRange(pool, position, config)
    /\ alignment' = AlignmentCheck(newRange', pool)
    /\ expected' = IF alignment' = "aligned"
                   THEN calculateExpectedAmounts(pool, position)
                   ELSE NoResult
    /\ minAmounts' = IF alignment' = "aligned"
                     THEN MinAmounts(expected',
                                     slippageFactor(maxSlippagePercent))
                     ELSE NoResult
    /\ \E ptb \in {RebalancePTB(pool, position, newRange', alignment',
                                minAmounts')} :
           IF ptb.status = "threw"
           THEN pc' = "done" /\ outcome' = ptb /\ UNCHANGED txs
           ELSE /\ pc' = "execute"
                /\ txs' = Append(txs, ptb.value)
                /\ UNCHANGED outcome
    /\ UNCHANGED <<phase, cycles, stateFetched, gasPrice, started, chain,
                   attempt, delays, lastError>>
    /\ UNCHANGED <<decision, rebalances>>
    /\ BotFixed

\* One iteration of the loop of executeWithTypeArgRetry: the transaction is
\* signed and submitted; on success the result is returned; on an error
\* (the request threw, or the status is not 'success') lastError is set,
\* and either the delay is waited for or, after the last attempt, lastError
\* is thrown.
ExecuteAttempt ==
    /\ pc = "execute"
    /\ attempt <= maxRetries
    /\ \E status \in {"success", "failure"} :
           /\ chain' = Append(chain, ChainEvent("submit", status))
           /\ IF status = "success"
              THEN /\ pc' = "done"
                   /\ outcome' = Returned(<<>>)
                   /\ UNCHANGED <<attempt, delays, lastError>>
              ELSE /\ lastError' = ExecutionFailed(attempt)
                   /\ attempt' = attempt + 1
                   /\ IF attempt < maxRetries
                      THEN /\ delays' = Append(delays,
                                               RetryDelay(attempt, config))
                           /\ UNCHANGED <<pc, outcome>>
                      ELSE /\ pc' = "done"
                           /\ outcome' = Threw(lastError')
                           /\ UNCHANGED delays
    /\ UNCHANGED <<phase, cycles, stateFetched, gasPrice, started, txs>>
    /\ UNCHANGED <<decision, rebalanceVars, expected, minAmounts>>
    /\ BotFixed

\* No transaction of the cycle went through
NothingExecuted ==
    \A i \in 1..Len(chain) :
        ~(chain[i].op = "submit" /\ chain[i].status = "success")

\* setInterval: the next check cycle begins, on the same snapshots when the
\* cycle before changed nothing on the chain.
NextCycle ==
    /\ pc = "done"
    /\ cycles < MaxCycles
    /\ NothingExecuted
    /\ cycles' = cycles + 1
    /\ pc' = CycleStart.pc
    /\ phase' = CycleStart.phase
    /\ stateFetched' = CycleStart.stateFetched
    /\ gasPrice' = CycleStart.gasPrice
    /\ started' = CycleStart.started
    /\ txs' = CycleStart.txs
    /\ chain' = CycleStart.chain
    /\ attempt' = CycleStart.attempt
    /\ delays' = CycleStart.delays
    /\ lastError' = CycleStart.lastError
    /\ outcome' = CycleStart.outcome
    /\ decision' = NoDecision
    /\ newRange' = NoRange
    /\ alignment' = "none"
    /\ expected' = NoResult
    /\ minAmounts' = NoResult
    /\ UNCHANGED rebalances
    /\ BotFixed

BotNext ==
    \/ CheckAndRebalance
    \/ GetCurrentState
    \/ CheckGasPrice
    \/ StepRemoveLiquidity
    \/ StepCollectFees
    \/ StepBalanceTokens
    \/ StepCalculateTickRange
    \/ StepAddLiquidity
    \/ SimulateTransaction
    \/ SignAndExecute
    \/ BuildRebalance
    \/ ExecuteAttempt
    \/ NextCycle

SpecBot == BotInit /\ [][BotNext]_vars

\* The bot when every request of executeWithTypeArgRetry is answered and
\* every wait ends: the loop goes on while it can.
SpecBotFair == SpecBot /\ WF_vars(ExecuteAttempt)

\* The state is well-formed (not a claim).
BotTypeOK ==
    /\ pc \in {"check", "state", "gas", "removeLiquidity", "collectFees",
               "balanceTokens", "calculateTickRange", "addLiquidity",
               "build", "execute", "done"}
    /\ phase \in {"none", "simulate", "submit"}


\* The commands of the transactions built in this cycle
Commands == {c \in [tx : 1..Len(txs), at : 1..20] : c.at <= Len(txs[c.tx])}

CommandAt(c) == txs[c.tx][c.at]

IsSwap(call) == call.target \in {"swap_a2b", "swap_b2a"}

\* C21: every swap added to a rebalance transaction carries slippage
\* protection: no swap Move call is built with a minimum output of 0.
C21_SwapsCarryMinimumOutput ==
    \A c \in Commands :
        IsSwap(CommandAt(c)) => CommandAt(c).arguments.minAmountOut # <<>>

\* A transaction with a swap has been built.
C21_Witness == \E c \in Commands : IsSwap(CommandAt(c))


\* The minimum amounts of an add_liquidity or remove_liquidity call
MinimumsOf(call) == <<call.arguments.minAmountA, call.arguments.minAmountB>>

\* C22: the minimum amounts attached to the deposit into the new range are
\* not those of the position being closed (the expected amounts of the old
\* range after slippage): they are derived for the new range.
C22_DepositMinimumsNotOfOldPosition ==
    \A c \in Commands :
        CommandAt(c).target = "add_liquidity" =>
            MinimumsOf(CommandAt(c)) #
                <<minAmounts.value.minAmountA, minAmounts.value.minAmountB>>

\* A deposit into a new range has been built for a position from which a
\* non-zero amount is expected.
C22_Witness ==
    /\ \E c \in Commands : CommandAt(c).target = "add_liquidity"
    /\ minAmounts.status = "ok"
    /\ \/ minAmounts.value.minAmountA # <<>>
       \/ minAmounts.value.minAmountB # <<>>


\* The transaction of the i-th request was dry-run with status 'success'
\* before that request.
SimulatedBefore(i) ==
    \E j \in 1..(i - 1) :
        /\ chain[j].op = "dryRun"
        /\ chain[j].tx = chain[i].tx
        /\ chain[j].status = "success"

\* C23: all transactions are dry-run before execution: a transaction is
\* signed and submitted only after a simulation of that transaction has
\* returned status 'success', and after a failed simulation nothing is
\* submitted.
C23_SubmittedOnlyAfterDryRun ==
    \A i \in 1..Len(chain) :
        /\ chain[i].op = "submit" => SimulatedBefore(i)
        /\ chain[i].op = "dryRun" /\ chain[i].status = "failure" =>
               \A j \in (i + 1)..Len(chain) : chain[j].op # "submit"

\* A transaction has been submitted.
C23_Witness == \E i \in 1..Len(chain) : chain[i].op = "submit"


\* rebalance has done nothing but check the gas price: no step has begun,
\* no range been calculated, no transaction been built, nothing been sent.
OnlyGasChecked ==
    /\ started = <<>>
    /\ newRange = NoRange
    /\ txs = <<>>
    /\ chain = <<>>

\* C24: rebalance() checks the gas price before anything else: until a gas
\* price has been obtained that is at most maxGasPrice, it has done nothing
\* else; with a gas price strictly greater than maxGasPrice (or none) it
\* has failed; a gas price equal to maxGasPrice passes, rebalance goes on.
C24_GasPriceCheckedFirst ==
    /\ ~(gasPrice.status = "ok" /\ gasPrice.value <= config.maxGasPrice) =>
           OnlyGasChecked
    /\ gasPrice.status = "threw" => outcome = gasPrice
    /\ gasPrice.status = "ok" /\ gasPrice.value > config.maxGasPrice =>
           pc = "done" /\ outcome.status = "threw"
    /\ gasPrice.status = "ok" /\ gasPrice.value <= config.maxGasPrice
           /\ OnlyGasChecked =>
           pc \in {"removeLiquidity", "build"} /\ outcome = NoResult

\* rebalance has failed on a gas price one above the maximum.
C24_Witness ==
    /\ gasPrice = Returned(config.maxGasPrice + 1)
    /\ outcome.status = "threw"


\* The steps of rebalance of the step-by-step service, in order
StepOrder ==
    <<"removeLiquidity", "collectFees", "balanceTokens", "calculateTickRange",
      "addLiquidity">>

\* The steps that execute a transaction
TransactionSteps == {"removeLiquidity", "collectFees", "addLiquidity"}

\* The transaction of the k-th step begun: the transactions are built in
\* the order of the steps.
TxOfStep(k) ==
    Cardinality({j \in 1..k : started[j] \in TransactionSteps})

\* The k-th step begun has succeeded: its transaction, if it has one, was
\* dry-run and submitted with status 'success'.
StepSucceeded(k) ==
    started[k] \in TransactionSteps =>
        \E i \in 1..Len(chain) :
            /\ chain[i] = [op |-> "submit", tx |-> TxOfStep(k),
                           status |-> "success"]
            /\ SimulatedBefore(i)

\* C25: the step-by-step rebalance runs remove liquidity, collect fees,
\* balance tokens, calculate the new range and add liquidity in that order;
\* a step begins only after the one before it has succeeded; a failure
\* skips the later steps and is thrown again; when rebalance returns, all
\* five steps have succeeded.
C25_StepsInOrder ==
    service = "steps" =>
        /\ Len(started) <= Len(StepOrder)
        /\ \A k \in 1..Len(started) : started[k] = StepOrder[k]
        /\ \A k \in 1..(Len(started) - 1) : StepSucceeded(k)
        /\ \A i \in 1..Len(chain) :
               chain[i].status = "failure" =>
                   /\ i = Len(chain)
                   /\ chain[i].tx = Len(txs)
                   /\ TxOfStep(Len(started)) = Len(txs)
                   /\ pc = "done"
                   /\ outcome.status = "threw"
        /\ outcome.status = "ok" =>
               /\ started = StepOrder
               /\ StepSucceeded(Len(started))

\* rebalance of the step-by-step service has returned.
C25_Witness == service = "steps" /\ pc = "done" /\ outcome.status = "ok"

\* A step has failed after another had succeeded.
C25_FailureWitness ==
    /\ service = "steps"
    /\ Len(started) >= 2
    /\ outcome.status = "threw"


\* In this cycle the state was fetched for a rebalance, rebalance() was
\* called, or a transaction was built, dry-run or submitted.
RebalanceBegun ==
    \/ stateFetched
    \/ pc \in {"state", "gas"}
    \/ gasPrice # NoResult
    \/ txs # <<>>
    \/ chain # <<>>

AttemptsBounded ==
    service = "atomic" =>
        /\ Len(chain) <= 6
        /\ \A i \in 1..Len(chain) :
               /\ chain[i].op = "submit"
               /\ chain[i].status = "success" =>
                      /\ i = Len(chain)
                      /\ pc = "done"
                      /\ outcome = Returned(<<>>)
        /\ pc = "execute" => Len(chain) < 6
        /\ chain # <<>> /\ pc = "done" /\ chain[Len(chain)].status = "failure"
               => /\ Len(chain) = 6
                  /\ outcome = Threw(ExecutionFailed(5))

\* C27: executeTransactionWithoutSimulation retries up to 5 times: it makes
\* at most 6 attempts, returns the result of the first that succeeds without
\* a further attempt, throws the error of the last attempt when all 6 have
\* failed, and always ends.
C27_RetriesUpToFiveTimes ==
    [](AttemptsBounded) /\ ((pc = "execute") ~> (pc = "done"))

\* All six attempts have failed.
C27_Witness ==
    /\ service = "atomic"
    /\ Len(chain) = 6
    /\ outcome.status = "threw"


\* The failed attempts of the cycle
FailedAttempts == {i \in 1..Len(chain) : chain[i].status = "failure"}

DecisionOfSnapshot ==
    decision.status = "returned" =>
        /\ decision = checkRebalanceNeeded(pool, position, config)
        /\ decision.currentTick = pool.currentTick
        /\ decision.tickLower = position.tickLower
        /\ decision.tickUpper = position.tickUpper

\* A step in which a decision is returned leaves the snapshots and the
\* configuration as they were.
SnapshotKept ==
    decision'.status = "returned" /\ decision.status # "returned" =>
        pool' = pool /\ position' = position /\ config' = config

WithinHalfHundredth(h, d) ==
    IF d.e >= -2 THEN h = BigMulPow10(d.c, d.e + 2)
    ELSE /\ BigLe(BigMulSmall(d.c, 2),
                  BigMulPow10(BigAdd(BigMulSmall(h, 2), BigOf(1)), -d.e - 2))
         /\ BigLe(BigMulPow10(BigMulSmall(h, 2), -d.e - 2),
                  BigAdd(BigMulSmall(d.c, 2), BigMulPow10(BigOf(1), -d.e - 2)))

\* C30: when the decision is shouldRebalance = true, its reason records the
\* direction of the breach and the magnitude of the deviation: it is "Price
\* moved <deviation>% outside range" with the deviation to two decimals,
\* negative exactly when the pool's tick is below tickLower and without a
\* sign when it is at or above tickUpper; for the range [100, 2000] and
\* currentTick 0 it is -0.99, the breach of the lower boundary.
C30_ReasonRecordsDirectionAndMagnitude ==
    decision.status = "returned" /\ decision.shouldRebalance =>
        /\ Len(decision.reason) = 3
        /\ decision.reason[1] = "Price moved "
        /\ decision.reason[3] = "% outside range"
        /\ decision.reason[2].negative <=>
               pool.currentTick < position.tickLower
        /\ ~decision.reason[2].negative <=>
               pool.currentTick >= position.tickUpper
        /\ WithinHalfHundredth(decision.reason[2].hundredths,
                               DeviationFrom(pool.currentTick,
                                   IF pool.currentTick < position.tickLower
                                   THEN position.tickLower
                                   ELSE position.tickUpper))
        /\ position = [tickLower |-> 100, tickUpper |-> 2000]
               /\ pool.currentTick = 0 =>
               decision.reason[2] = [negative |-> TRUE, hundredths |-> <<99>>]

\* The decision to rebalance the range [100, 2000] at currentTick 0 has been
\* returned.
C30_Witness ==
    /\ decision.status = "returned"
    /\ decision.shouldRebalance
    /\ position = [tickLower |-> 100, tickUpper |-> 2000]
    /\ pool.currentTick = 0


(***************************************************************************)
(* SpecLifecycle: RebalancingBot between start() and stop().  start(),     *)
(* stop() and the callback of setInterval run to their next await; a       *)
(* checkAndRebalance call awaits the monitor's decision, then the state,   *)
(* then rebalance(), and any of them may run while another awaits.  The    *)
(* pool moves on the chain in between.                                     *)
(***************************************************************************)
\* The setInterval calls made
MaxTimers == 2

\* The checkAndRebalance calls that await at the same time
MaxInFlight == 2

\* The pool on the chain: within the position [-1000, 1000], 1 % above it
\* (less than the threshold) and 5 % above it
LifecycleTicks == {0, 1100, 1500}

\* The pool at each of them
LifecyclePool(t) == [currentTick |-> t, tickSpacing |-> 60]

Event(kind, detail) == [kind |-> kind, detail |-> detail]

\* The calls that await
Awaiting == {s \in DOMAIN inFlight : inFlight[s].pc # "none"}

\* The first free place of inFlight; 0 when there is none
FreeSlot ==
    IF \A s \in DOMAIN inFlight : inFlight[s].pc # "none"
    THEN 0
    ELSE CHOOSE s \in DOMAIN inFlight :
             /\ inFlight[s].pc = "none"
             /\ \A r \in DOMAIN inFlight : inFlight[r].pc = "none" => s <= r

\* The start() calls that await their first check
Starting == {s \in DOMAIN inFlight : inFlight[s].by = "start"}

LifecycleInit ==
    /\ pool = LifecyclePool(0)
    /\ position = [tickLower |-> -1000, tickUpper |-> 1000]
    /\ config = DefaultConfig
    /\ decision = NoDecision
    /\ checks = 0
    /\ decisions = [t \in LifecycleTicks |->
                        checkRebalanceNeeded(LifecyclePool(t), position,
                                             config)]
    /\ isRunning = FALSE
    /\ intervalId = 0
    /\ timers = {}
    /\ created = 0
    /\ inFlight = [s \in 1..MaxInFlight |-> NoCycle]
    /\ lastEvent = Event("none", "")
    /\ handed = NothingHanded
    /\ TickMathIdle
    /\ RebalanceIdle
    /\ LiquidityIdle
    /\ BotIdle
    /\ HelperIdle
    /\ EncodingIdle
    /\ RewardIdle

\* What the bot's lifecycle leaves unchanged
LifecycleFixed ==
    UNCHANGED <<position, config, decision, checks, decisions, tickMathVars,
                rebalanceVars, liquidityVars, botVars, helperVars,
                encodingVars, rewardVars>>

\* As checkAndRebalanceOutcome, but without the catch block.
checkAndRebalanceRethrows(error) ==
    IF error = "" THEN Returned(<<>>) ELSE Threw(error)

\* checkAndRebalance(): try { ... } catch (error) { logger.error(...) }.
\* error is what the body threw, "" when it threw nothing; the call
\* returns either way.
checkAndRebalanceOutcome(error) == Returned(<<>>)

\* start(): if (this.isRunning) { warn; return; }  this.isRunning = true;
\* await this.checkAndRebalance(), which runs to its first await.
Start ==
    /\ IF isRunning
       THEN /\ lastEvent' = Event("start", "ignored")
            /\ UNCHANGED <<isRunning, inFlight>>
       ELSE /\ created + Cardinality(Starting) < MaxTimers
            /\ FreeSlot # 0
            /\ isRunning' = TRUE
            /\ inFlight' = [inFlight EXCEPT ![FreeSlot] =
                                [by |-> "start", pc |-> "check",
                                 decision |-> NoDecision]]
            /\ lastEvent' = Event("start", "accepted")
    /\ UNCHANGED <<intervalId, timers, created, handed, pool>>
    /\ LifecycleFixed

\* stop(): if (!this.isRunning) { warn; return; }
\* if (this.intervalId) { clearInterval(this.intervalId);
\* this.intervalId = null; }  this.isRunning = false
Stop ==
    /\ IF ~isRunning
       THEN /\ lastEvent' = Event("stop", "ignored")
            /\ UNCHANGED <<isRunning, intervalId, timers>>
       ELSE /\ timers' = timers \ {intervalId}
            /\ intervalId' = 0
            /\ isRunning' = FALSE
            /\ lastEvent' = Event("stop", "accepted")
    /\ UNCHANGED <<created, inFlight, handed, pool>>
    /\ LifecycleFixed

\* The callback of setInterval: async () => { await
\* this.checkAndRebalance(); }, which runs to its first await.
TimerFires ==
    /\ timers # {}
    /\ FreeSlot # 0
    /\ inFlight' = [inFlight EXCEPT ![FreeSlot] =
                        [by |-> "timer", pc |-> "check",
                         decision |-> NoDecision]]
    /\ lastEvent' = Event("tick", IF isRunning THEN "running" ELSE "stopped")
    /\ UNCHANGED <<isRunning, intervalId, timers, created, handed, pool>>
    /\ LifecycleFixed

\* The checkAndRebalance call s is over, its body having thrown error or
\* nothing.  When start() awaited it and it returned, start() goes on:
\* this.intervalId = setInterval(...).
EndCycle(s, from, error) ==
    /\ inFlight' = [inFlight EXCEPT ![s] = NoCycle]
    /\ \E result \in {checkAndRebalanceOutcome(error)} :
           /\ lastEvent' =
                  IF result.status = "threw" THEN Event("escaped", from)
                  ELSE IF error # "" THEN Event("caught", from)
                  ELSE Event("returned", from)
           /\ IF inFlight[s].by = "start" /\ result.status = "ok"
              THEN /\ created' = created + 1
                   /\ intervalId' = created'
                   /\ timers' = timers \cup {created'}
              ELSE UNCHANGED <<created, intervalId, timers>>
    /\ UNCHANGED isRunning

\* const decision = await this.positionMonitor.checkRebalanceNeeded();
\* if (!decision.shouldRebalance) return.  The monitor decides on the pool
\* as it is on the chain now; decisions holds what it returns there.
AwaitDecision ==
    /\ \E s \in Awaiting :
           /\ inFlight[s].pc = "check"
           /\ \E ok \in BOOLEAN :
              \E d \in {IF ok THEN decisions[pool.currentTick]
                        ELSE CheckFailed} :
                  IF AfterDecision(d) = "state"
                  THEN /\ inFlight' = [inFlight EXCEPT ![s].pc = "state",
                                                       ![s].decision = d]
                       /\ lastEvent' = Event("decided", "check")
                       /\ UNCHANGED <<isRunning, intervalId, timers, created>>
                  ELSE EndCycle(s, "check",
                                IF ok THEN "" ELSE "Failed to check")
    /\ UNCHANGED <<handed, pool>>
    /\ LifecycleFixed

\* const { pool, position } = await this.positionMonitor.getCurrentState();
\* await this.rebalanceService.rebalance(pool, position), which runs to its
\* first await.  getCurrentState fetches the pool and the position anew.
AwaitState ==
    /\ \E s \in Awaiting :
           /\ inFlight[s].pc = "state"
           /\ \E ok \in BOOLEAN :
                  IF ok
                  THEN /\ inFlight' = [inFlight EXCEPT ![s].pc = "rebalance"]
                       /\ handed' = [decision |-> inFlight[s].decision,
                                     pool |-> pool]
                       /\ lastEvent' = Event("handed", "state")
                       /\ UNCHANGED <<isRunning, intervalId, timers, created>>
                  ELSE /\ EndCycle(s, "state", "Failed to get state")
                       /\ UNCHANGED handed
    /\ UNCHANGED pool
    /\ LifecycleFixed

\* rebalance() returns or throws.
AwaitRebalance ==
    /\ \E s \in Awaiting :
           /\ inFlight[s].pc = "rebalance"
           /\ \E ok \in BOOLEAN :
                  EndCycle(s, "rebalance",
                           IF ok THEN "" ELSE "Rebalance failed")
    /\ UNCHANGED <<handed, pool>>
    /\ LifecycleFixed

\* The pool's tick moves on the chain.
TickMoves ==
    /\ \E t \in LifecycleTicks \ {pool.currentTick} :
           pool' = [pool EXCEPT !.currentTick = t]
    /\ lastEvent' = Event("moved", "")
    /\ UNCHANGED <<isRunning, intervalId, timers, created, inFlight, handed>>
    /\ LifecycleFixed

LifecycleNext ==
    \/ Start
    \/ Stop
    \/ TimerFires
    \/ AwaitDecision
    \/ AwaitState
    \/ AwaitRebalance
    \/ TickMoves

SpecLifecycle == LifecycleInit /\ [][LifecycleNext]_vars


\* The state is well-formed (not a claim).
LifecycleTypeOK ==
    /\ isRunning \in BOOLEAN
    /\ intervalId \in 0..MaxTimers
    /\ timers \subseteq 1..MaxTimers
    /\ created \in 0..MaxTimers
    /\ DOMAIN inFlight = 1..MaxInFlight
    /\ \A s \in DOMAIN inFlight :
           /\ inFlight[s].by \in {"none", "start", "timer"}
           /\ inFlight[s].pc \in {"none", "check", "state", "rebalance"}
    /\ pool.currentTick \in LifecycleTicks

(***************************************************************************)
(* C31: after stop() has returned, no interval timer remains scheduled and  *)
(* no further cycle is started, whenever stop() is called, also while       *)
(* start() awaits its first check: in every reachable state intervalId is   *)
(* set only while isRunning is true, no timer is scheduled while isRunning  *)
(* is false, and a timer's tick starts a cycle only on a running bot.       *)
(***************************************************************************)
C31_NoTimerOnceStopped ==
    /\ intervalId # 0 => isRunning
    /\ ~isRunning => timers = {}
    /\ lastEvent.kind = "tick" => lastEvent.detail = "running"

\* stop() has returned while a start() awaits its first check.
C31_Witness ==
    /\ lastEvent = Event("stop", "accepted")
    /\ Starting # {}

(***************************************************************************)
(* C32: at most one checkAndRebalance call is in progress at any time; a   *)
(* tick of the interval timer starts no cycle while one still awaits.      *)
(***************************************************************************)
C32_OneCycleAtATime == Cardinality(Awaiting) <= 1

\* The timer ticks while the cycle of an earlier tick awaits rebalance().
C32_Witness ==
    /\ lastEvent.kind = "tick"
    /\ \A s \in Awaiting : inFlight[s].by = "timer"
    /\ \E s \in Awaiting : inFlight[s].pc = "rebalance"

(***************************************************************************)
(* C33: the pool handed to rebalance() is the one the decision that        *)
(* triggered it was evaluated on, and the position is out of range by the  *)
(* threshold or more at that pool.                                         *)
(***************************************************************************)
C33_RebalanceGetsTheDecisionsSnapshot ==
    handed # NothingHanded =>
        /\ handed.pool.currentTick = handed.decision.currentTick
        /\ decisions[handed.pool.currentTick].shouldRebalance

\* rebalance() has been called.
C33_Witness ==
    /\ lastEvent.kind = "handed"
    /\ handed.decision.shouldRebalance

(***************************************************************************)
(* C34: start() on a running bot and stop() on a bot that does not run     *)
(* change nothing: no check is run, no timer scheduled, isRunning and      *)
(* intervalId stay; and at most one interval timer exists at any time.     *)
(***************************************************************************)
\* A call is ignored exactly in the wrong state, and changes nothing then.
IgnoredInTheWrongState ==
    /\ lastEvent'.kind = "start" =>
           (lastEvent'.detail = "ignored") = isRunning
    /\ lastEvent'.kind = "stop" =>
           (lastEvent'.detail = "ignored") = ~isRunning
    /\ lastEvent'.detail = "ignored" =>
           UNCHANGED <<isRunning, intervalId, timers, created, inFlight,
                       handed>>

C34_CallsInTheWrongStateChangeNothing ==
    /\ [](Cardinality(timers) <= 1)
    /\ [][IgnoredInTheWrongState]_vars

\* start() was called on a running bot whose timer is scheduled.
C34_Witness ==
    /\ lastEvent = Event("start", "ignored")
    /\ timers # {}

(***************************************************************************)
(* C35: an error thrown inside a check cycle, by checkRebalanceNeeded, by  *)
(* getCurrentState or by rebalance, never escapes checkAndRebalance and    *)
(* never stops the bot: isRunning and the timer stay as they are (a        *)
(* start() that awaited the failed check goes on to schedule its timer),   *)
(* and the next tick of a scheduled timer starts a new cycle.              *)
(***************************************************************************)
\* The step that catches an error ends a cycle and nothing else.
FailureKeepsTheBot ==
    lastEvent'.kind = "caught" =>
        /\ isRunning' = isRunning
        /\ Cardinality(Awaiting') = Cardinality(Awaiting) - 1
        /\ IF Starting' # Starting
           THEN /\ intervalId' \notin timers
                /\ timers' = timers \cup {intervalId'}
           ELSE UNCHANGED <<intervalId, timers>>

\* No error has escaped, and after a caught one the timer can tick.
FailureIsCaught ==
    /\ lastEvent.kind # "escaped"
    /\ lastEvent.kind = "caught" /\ timers # {} => ENABLED TimerFires

C35_CycleFailureIsCaught ==
    /\ [](FailureIsCaught)
    /\ [][FailureKeepsTheBot]_vars

\* rebalance() threw in a cycle of the timer; the bot runs and its timer is
\* scheduled.
C35_Witness ==
    /\ lastEvent = Event("caught", "rebalance")
    /\ isRunning
    /\ intervalId \in timers


(***************************************************************************)
(* SpecBotLive: the bot when every await of rebalance() of the             *)
(* step-by-step service resolves: each request to the node is answered,    *)
(* with a success or a failure, and rebalance goes from each step to the   *)
(* next.                                                                   *)
(***************************************************************************)
\* The steps of rebalance() of the step-by-step service that await
RebalanceStep ==
    \/ CheckGasPrice
    \/ StepRemoveLiquidity
    \/ StepCollectFees
    \/ StepBalanceTokens
    \/ StepAddLiquidity
    \/ SimulateTransaction
    \/ SignAndExecute

\* Step 4 computes without awaiting: rebalance does not stay in it.
AtCalculateTickRange == service = "steps" /\ pc = "calculateTickRange"

SpecBotLive ==
    /\ SpecBotFair
    /\ WF_vars(RebalanceStep)
    /\ []<>(~AtCalculateTickRange)

\* getGasPrice() returned a price that checkGasPrice lets pass.
GasCheckPassed ==
    gasPrice.status = "ok" /\ checkGasPrice(gasPrice, config).status = "ok"

\* Every dry run and every submission so far had the status 'success'.
NodeSucceeded == \A i \in 1..Len(chain) : chain[i].status = "success"

\* rebalance() of the step-by-step service is over, and whatever it asked of
\* the node succeeded.
SucceededAtTheNode ==
    /\ service = "steps"
    /\ pc = "done"
    /\ GasCheckPassed
    /\ NodeSucceeded

(***************************************************************************)
(* C36: when the gas check passes and every dry run and every submission   *)
(* succeeds at the node, rebalance() of the step-by-step service           *)
(* eventually comes to its end, having run all five steps, and returns:    *)
(* executeTransaction returns the response of each submission.             *)
(***************************************************************************)
C36_RebalanceCompletesWhenTheNodeSucceeds ==
    /\ [](SucceededAtTheNode =>
              outcome.status = "ok" /\ started = StepOrder)
    /\ (service = "steps" /\ GasCheckPassed) ~> (pc = "done")

\* rebalance() of the step-by-step service is over after a successful dry
\* run of its first transaction, the only request it made.
C36_Witness ==
    /\ SucceededAtTheNode
    /\ chain = <<[op |-> "dryRun", tx |-> 1, status |-> "success"]>>


(***************************************************************************)
(* SpecPoolHelper: closestActiveRange on a pool, then isOutOfRange on      *)
(* positions of that pool.                                                 *)
(***************************************************************************)
\* pool.tickCurrent: the bounds, zero, and ticks at, next to and halfway
\* between multiples of the tick spacings
HelperTicks ==
    {MIN_TICK, -120, -90, -61, -31, -30, -1, 0, 29, 30, 60, 90, MAX_TICK}

\* pool.tickSpacing
HelperSpacings == {1, 2, 60}

\* multiplier
HelperMultipliers == {1, 2, 3}

PoolHelperInit ==
    /\ \E t \in HelperTicks, below \in BOOLEAN :
       \E price \in {TickToX64(t)} :
           /\ helperPool \in
                  {[tickCurrent |-> t, tickSpacing |-> spacing,
                    sqrtPriceX64 |-> IF below THEN BigSub(price, <<1>>)
                                     ELSE price] :
                   spacing \in HelperSpacings}
    /\ multiplier \in HelperMultipliers
    /\ activeTicks = NoResult
    /\ helperPosition = [tickLower |-> 0, tickUpper |-> 60]
    /\ outOfRange = NoResult
    /\ TickMathIdle
    /\ MonitorIdle
    /\ RebalanceIdle
    /\ LiquidityIdle
    /\ BotIdle
    /\ LifecycleIdle
    /\ EncodingIdle
    /\ RewardIdle

PoolHelperFixed ==
    UNCHANGED <<helperPool, multiplier, tickMathVars, monitorVars,
                rebalanceVars, liquidityVars, botVars, lifecycleVars,
                encodingVars, rewardVars>>

\* closestActiveRange(pool, multiplier)
ClosestActiveRange ==
    /\ activeTicks = NoResult
    /\ activeTicks' = closestActiveRange(helperPool, multiplier)
    /\ UNCHANGED <<helperPosition, outOfRange>>
    /\ PoolHelperFixed

\* The positions asked about: the one on the active range, and those with
\* one bound a tick spacing away
PositionsAround(active, spacing) ==
    {[tickLower |-> active[1] + dl * spacing,
      tickUpper |-> active[2] + du * spacing] :
     <<dl, du>> \in {<<0, 0>>, <<-1, 0>>, <<0, 1>>, <<1, 1>>}}

\* isOutOfRange(position, multiplier) for a position of the pool
IsOutOfRange ==
    /\ activeTicks.status = "ok"
    /\ outOfRange = NoResult
    /\ helperPosition' \in PositionsAround(activeTicks.value,
                                           helperPool.tickSpacing)
    /\ outOfRange' = isOutOfRange([tickLower |-> helperPosition'.tickLower,
                                   tickUpper |-> helperPosition'.tickUpper,
                                   pool |-> helperPool], multiplier)
    /\ UNCHANGED activeTicks
    /\ PoolHelperFixed

PoolHelperNext == ClosestActiveRange \/ IsOutOfRange

SpecPoolHelper == PoolHelperInit /\ [][PoolHelperNext]_vars

\* The range returned has its lower tick on a multiple of the tick spacing,
\* the width asked for, and the pool's tick within it.
ActiveRangeAroundTick ==
    activeTicks.status = "ok" =>
        /\ activeTicks.value[1] % helperPool.tickSpacing = 0
        /\ activeTicks.value[2] - activeTicks.value[1] =
               multiplier * helperPool.tickSpacing
        /\ activeTicks.value[1] <= helperPool.tickCurrent
        /\ helperPool.tickCurrent <= activeTicks.value[2]

(***************************************************************************)
(* C37: for a pool with tickSpacing > 0 and a multiplier >= 1,             *)
(* closestActiveRange returns [lower, upper] with lower a multiple of      *)
(* tickSpacing, upper - lower = multiplier * tickSpacing and lower <=      *)
(* pool.tickCurrent <= upper, for negative and positive ticks; and         *)
(* isOutOfRange(position, multiplier) is false exactly when the position's *)
(* bounds are that range.                                                  *)
(***************************************************************************)
C37_ActiveRangeContainsTheTick ==
    /\ ActiveRangeAroundTick
    /\ outOfRange.status = "ok" =>
           (outOfRange.value = FALSE) =
               (/\ helperPosition.tickLower = activeTicks.value[1]
                /\ helperPosition.tickUpper = activeTicks.value[2])

\* A pool at tick -120 with spacing 60 whose price is below that of its
\* tick: the candidate Math.round(-2.5) * 60 is the tick itself, the range of
\* one spacing is [-180, -120], and the position on it is not out of range.
C37_Witness ==
    /\ helperPool.tickCurrent = -120
    /\ helperPool.tickSpacing = 60
    /\ multiplier = 1
    /\ activeTicks = Returned(<<-180, -120>>)
    /\ outOfRange = Returned(FALSE)


(***************************************************************************)
(* SpecEncoding: addLiquidity builds the open_position call for a range    *)
(* of ticks within the bounds.                                             *)
(***************************************************************************)
\* The bounds of the ranges opened
EncodingTicks ==
    {MIN_TICK, MIN_TICK + 1, -200000, -60, -2, -1, 0, 1, 2, 60, 200000,
     MAX_TICK - 1, MAX_TICK}

EncodingInit ==
    /\ \E lower \in EncodingTicks, upper \in EncodingTicks :
           /\ lower < upper
           /\ tickRange = [tickLower |-> lower, tickUpper |-> upper]
    /\ openCall = NoResult
    /\ TickMathIdle
    /\ MonitorIdle
    /\ RebalanceIdle
    /\ LiquidityIdle
    /\ BotIdle
    /\ LifecycleIdle
    /\ HelperIdle
    /\ RewardIdle

\* addLiquidity(pool, newRange): the transaction with the open_position call
AddLiquidity ==
    /\ openCall = NoResult
    /\ openCall' = Returned(AddLiquidityTx(tickRange))
    /\ UNCHANGED <<tickRange, tickMathVars, monitorVars, rebalanceVars,
                   liquidityVars, botVars, lifecycleVars, helperVars,
                   rewardVars>>

SpecEncoding == EncodingInit /\ [][AddLiquidity]_vars

\* The greatest u32, 2^32 - 1
U32_MAX == BigSub(BigPow2(32), <<1>>)

\* The tick that a magnitude and a sign flag stand for
DecodeTick(magnitude, isNegative) ==
    IF isNegative THEN -magnitude ELSE magnitude

\* The magnitude and the flag are those of the tick: the magnitude is a u32,
\* they decode to the tick, and zero is not flagged negative.
EncodesTick(magnitude, isNegative, t) ==
    /\ magnitude >= 0
    /\ BigLe(BigOf(magnitude), U32_MAX)
    /\ DecodeTick(magnitude, isNegative) = t
    /\ t = 0 => ~isNegative

(***************************************************************************)
(* C38: the encoding of the ticks of open_position as a magnitude and a    *)
(* sign flag loses nothing: for ticks in [MIN_TICK, MAX_TICK], the         *)
(* magnitude and the flag decode to the tick, the magnitude fits a u32,    *)
(* tick 0 is encoded with isNegative = false, and the lower tick decoded   *)
(* is below the upper tick decoded.                                        *)
(***************************************************************************)
C38_TickEncodingIsLossless ==
    openCall.status = "ok" =>
        \E a \in {openCall.value[1].arguments} :
            /\ EncodesTick(a.tickLowerAbs, a.isTickLowerNegative,
                           tickRange.tickLower)
            /\ EncodesTick(a.tickUpperAbs, a.isTickUpperNegative,
                           tickRange.tickUpper)
            /\ DecodeTick(a.tickLowerAbs, a.isTickLowerNegative) <
                   DecodeTick(a.tickUpperAbs, a.isTickUpperNegative)

\* The call for the range [MIN_TICK, 0] has been built.
C38_Witness ==
    /\ openCall.status = "ok"
    /\ tickRange = [tickLower |-> MIN_TICK, tickUpper |-> 0]


(***************************************************************************)
(* SpecRewards: collectAllRewards(position, tx) on a position whose        *)
(* rewardInfos and whose pool's poolRewards have any entries missing, one  *)
(* iteration of its loop per step.                                         *)
(***************************************************************************)
\* The greatest length of rewardInfos and of poolRewards
MaxRewards == 3

\* The arrays of at most MaxRewards entries, each there or not
RewardArrays == UNION {[1..n -> BOOLEAN] : n \in 0..MaxRewards}

RewardsInit ==
    /\ rewardInfos \in RewardArrays
    /\ poolRewards \in RewardArrays
    /\ rewardIndex = 0
    /\ attempted = <<>>
    /\ rewards = <<>>
    /\ moveCalls = <<>>
    /\ warnings = <<>>
    /\ collected = NoResult
    /\ TickMathIdle
    /\ MonitorIdle
    /\ RebalanceIdle
    /\ LiquidityIdle
    /\ BotIdle
    /\ LifecycleIdle
    /\ HelperIdle
    /\ EncodingIdle

RewardsFixed ==
    UNCHANGED <<rewardInfos, poolRewards, tickMathVars, monitorVars,
                rebalanceVars, liquidityVars, botVars, lifecycleVars,
                helperVars, encodingVars>>

\* for (let i = 0; i < position.rewardInfos.length; i++) { try { const
\* reward = collectReward(position, tx, i); rewards.push(reward); } catch
\* (error) { logger.warn(...) } }: one iteration
CollectNextReward ==
    /\ collected = NoResult
    /\ rewardIndex < Len(rewardInfos)
    /\ attempted' = Append(attempted, rewardIndex)
    /\ \E call \in {collectReward([rewardInfos |-> rewardInfos,
                                   pool |-> [poolRewards |-> poolRewards]],
                                  moveCalls, rewardIndex)} :
           /\ moveCalls' = call.tx
           /\ IF call.outcome.status = "ok"
              THEN /\ rewards' = Append(rewards, call.outcome.value)
                   /\ UNCHANGED warnings
              ELSE /\ warnings' = Append(warnings, rewardIndex)
                   /\ UNCHANGED rewards
    /\ rewardIndex' = rewardIndex + 1
    /\ UNCHANGED collected
    /\ RewardsFixed

\* The loop is over: return rewards
ReturnRewards ==
    /\ collected = NoResult
    /\ rewardIndex >= Len(rewardInfos)
    /\ collected' = Returned(rewards)
    /\ UNCHANGED <<rewardIndex, attempted, rewards, moveCalls, warnings>>
    /\ RewardsFixed

RewardsNext == CollectNextReward \/ ReturnRewards

SpecRewards == RewardsInit /\ [][RewardsNext]_vars

\* The indexes of the rewards collected so far
RewardIndexes == {rewards[k].rewardIndex : k \in DOMAIN rewards}

\* The indexes tried are 0, 1, 2, ... in this order, and those of them whose
\* reward info and pool reward are there are the ones collected, whatever
\* failed before them.
EveryIndexAttempted ==
    /\ attempted = [k \in 1..rewardIndex |-> k - 1]
    /\ RewardIndexes =
           {i \in 0..(rewardIndex - 1) :
                HasEntry(rewardInfos, i) /\ HasEntry(poolRewards, i)}
    /\ collected.status = "ok" =>
           /\ rewardIndex = Len(rewardInfos)
           /\ collected.value = rewards

\* The rewards are in the order of their indexes, at most one per entry of
\* rewardInfos.
RewardsInIndexOrder ==
    /\ Len(rewards) <= Len(rewardInfos)
    /\ \A k \in DOMAIN rewards : \A l \in DOMAIN rewards :
           k < l => rewards[k].rewardIndex < rewards[l].rewardIndex

\* The transaction holds the Move calls of the rewards collected and no
\* other: an index that failed has left none.
OneCallPerReward ==
    /\ Len(moveCalls) = Len(rewards)
    /\ \A k \in DOMAIN rewards :
           /\ rewards[k].command = k
           /\ moveCalls[k] =
                  MoveCall("collect_reward",
                           [rewardIndex |-> rewards[k].rewardIndex])

(***************************************************************************)
(* C39: collectAllRewards tolerates the failure of single rewards: it      *)
(* calls collectReward for every index 0 .. rewardInfos.length - 1 in      *)
(* ascending order, a failure at one index does not keep the later ones    *)
(* from being collected, the list returned has at most rewardInfos.length  *)
(* entries, in the order of the indexes, and collectReward appends no Move *)
(* call when it throws for a missing reward info or a missing pool reward. *)
(***************************************************************************)
C39_RewardFailuresAreTolerated ==
    /\ EveryIndexAttempted
    /\ RewardsInIndexOrder
    /\ OneCallPerReward

\* Of three rewards the first lacks its reward info and the second its pool
\* reward; the third has been collected and the list returned.
C39_Witness ==
    /\ rewardInfos = <<FALSE, TRUE, TRUE>>
    /\ poolRewards = <<TRUE, FALSE, TRUE>>
    /\ warnings = <<0, 1>>
    /\ collected.status = "ok"
    /\ Len(collected.value) = 1
    /\ collected.value[1].rewardIndex = 2

====
